---- MODULE Spec2Model ----
(***************************************************************************)
(* A model of the OCR extraction engine: the worker's processJob pipeline  *)
(* (classification, header and table extraction, confidence scoring,       *)
(* schema validation, persistence) and the pure helpers of                 *)
(* src/src/utils/normalize.js.                                             *)
(*                                                                         *)
(* Conventions.                                                            *)
(*  - A confidence is an integer number of hundredths: 0.57 is 57.         *)
(*  - An amount is an integer number of hundredths of the currency unit.   *)
(*  - A JSON value is a record tagged with its JSON type (field t).        *)
(*  - A document text is a sequence of items; an item is the name of a     *)
(*    line of the vocabulary LineInfo, or "PB", the boundary between two   *)
(*    pages.  What each regular expression of the source finds in a line   *)
(*    is tabulated in LineInfo.                                            *)
(***************************************************************************)
EXTENDS Integers, Sequences, FiniteSets, TLC

VARIABLES
    \* ---- processJob (src/src/workers/processor.js)
    job,                \* bullJob.data and the PDF behind filePath
    pc,                 \* position of processJob
    jobStatus,          \* jobs.status of the job's row
    jobError,           \* the error code in jobs.error_message
    docStatus,          \* documents.status of the document's row
    warnings,           \* the local array "warnings"
    isScanned,          \* the local "isScanned"
    pageTexts,          \* the text read from the PDF (sequence of items)
    classification,     \* what classifyDocument returned
    extractionResult,   \* what the extractor returned
    finalResult,        \* the assembled result object
    schemaErrors,       \* what validateResult reported
    results,            \* rows of the results table
    attemptsMade,       \* how often the queue has re-run processJob for the job
    response,           \* what GET /api/v1/jobs/:id/result answered last
    \* ---- calcConfidence applied to an arbitrary field map
    cfFields, cfRequired, cfResult,
    \* ---- cleanOCRArtifacts applied to an arbitrary text, repeatedly
    ocrText, ocrPasses,
    \* ---- normalizeAmount applied to an arbitrary string, bare and parenthesized
    amtText, amtPlain, amtParen,
    \* ---- normalizeDate applied to an arbitrary date token
    dateText, dateNative, dateResult,
    \* ---- POST /api/v1/documents/upload called repeatedly
    documents,          \* rows of the documents table
    jobRows,            \* rows of the jobs table
    queued,             \* the data of the jobs added to the queue
    \* ---- splitByDeductors applied to an arbitrary sequence of lines
    splitLines,         \* the lines
    splitBlocks,        \* what the calls returned, one entry a call
    \* ---- one POST /api/v1/documents/upload running beside the worker
    handler,            \* position of the route handler
    unlinked            \* whether the handler has removed the uploaded file

pipeVars == <<job, pc, jobStatus, jobError, docStatus, warnings, isScanned, pageTexts,
              classification, extractionResult, finalResult, schemaErrors, results,
              attemptsMade, response>>
calcVars == <<cfFields, cfRequired, cfResult>>
cleanVars == <<ocrText, ocrPasses>>
amountVars == <<amtText, amtPlain, amtParen>>
dateVars == <<dateText, dateNative, dateResult>>
uploadVars == <<documents, jobRows, queued>>
splitVars == <<splitLines, splitBlocks>>
handlerVars == <<handler, unlinked>>
vars == <<pipeVars, calcVars, cleanVars, amountVars, dateVars, uploadVars, splitVars, handlerVars>>

(***************************************************************************)
(* Bounds of the model.                                                    *)
(***************************************************************************)
\* items (lines and page boundaries) of a document text
MaxItems == 2
\* entries of the "required" list handed to calcConfidence
MaxRequired == 2
\* characters of a text handed to cleanOCRArtifacts
MaxChars == 4

(***************************************************************************)
(* Generic helpers.                                                        *)
(***************************************************************************)
SeqsUpTo(S, n) == UNION { [1..k -> S] : k \in 0..n }

Max(a, b) == IF a >= b THEN a ELSE b

Min(a, b) == IF a <= b THEN a ELSE b

RECURSIVE SumSeq(_)
SumSeq(s) == IF s = <<>> THEN 0 ELSE Head(s) + SumSeq(Tail(s))

RECURSIVE Flatten(_)
Flatten(ss) == IF ss = <<>> THEN <<>> ELSE Head(ss) \o Flatten(Tail(ss))

\* number of entries of s equal to x
RECURSIVE CountEq(_, _)
CountEq(s, x) ==
    IF s = <<>> THEN 0
    ELSE (IF Head(s) = x THEN 1 ELSE 0) + CountEq(Tail(s), x)

\* JSON values
JNull == [t |-> "null"]
JUndefined == [t |-> "undefined"]
JStr(s) == [t |-> "string", s |-> s]
JNum(n) == [t |-> "number", n |-> n]
JBool(b) == [t |-> "boolean", b |-> b]

\* Math.round(a / b) for a >= 0, b > 0: the nearest integer, a half going up
MathRound(a, b) == (2 * a + b) \div (2 * b)

(***************************************************************************)
(* src/src/utils/normalize.js: calcConfidence                              *)
(***************************************************************************)
\* fields[k] !== null && fields[k] !== undefined && fields[k] !== ''
IsFilled(fields, k) ==
    /\ k \in DOMAIN fields
    /\ fields[k].t \notin {"null", "undefined"}
    /\ ~(fields[k].t = "string" /\ fields[k].s = "")

\* required.filter(k => ...).length : the entries of the list, with repetition
RECURSIVE RequiredFilled(_, _)
RequiredFilled(fields, required) ==
    IF required = <<>> THEN 0
    ELSE (IF IsFilled(fields, Head(required)) THEN 1 ELSE 0)
         + RequiredFilled(fields, Tail(required))

\* a mutant: the weights of the two scores exchanged
calcConfidenceSwapped(fields, required) ==
    LET n == Cardinality(DOMAIN fields)
        filled == Cardinality({k \in DOMAIN fields : IsFilled(fields, k)})
        m == Len(required)
        rf == RequiredFilled(fields, required)
    IN  IF n = 0 THEN 0
        ELSE IF m > 0 THEN MathRound(60 * filled * m + 40 * rf * n, n * m)
        ELSE MathRound(60 * filled + 40 * n, n)

\* Math.round((fieldScore * 0.4 + requiredScore * 0.6) * 100) / 100, in hundredths
calcConfidence(fields, required) ==
    LET n == Cardinality(DOMAIN fields)
        filled == Cardinality({k \in DOMAIN fields : IsFilled(fields, k)})
        m == Len(required)
        rf == RequiredFilled(fields, required)
    IN  IF n = 0 THEN 0
        ELSE IF m > 0 THEN MathRound(40 * filled * m + 60 * rf * n, n * m)
        ELSE MathRound(40 * filled + 60 * n, n)

(***************************************************************************)
(* src/src/utils/normalize.js: cleanOCRArtifacts, on a text given as its   *)
(* sequence of characters.                                                 *)
(***************************************************************************)
\* \d
Digits == {"0", "1", "7"}

\* \s
Whitespace == {" ", "\n"}

\* \w
WordChars == {"l", "O", "I", "a"} \cup Digits

\* length of the longest prefix of s made of characters of class
RECURSIVE RunLength(_, _)
RunLength(s, class) ==
    IF s = <<>> \/ Head(s) \notin class THEN 0
    ELSE 1 + RunLength(Tail(s), class)

\* s.replace(/[class]{2,}/g, ' ')
RECURSIVE CollapseRuns(_, _)
CollapseRuns(s, class) ==
    IF s = <<>> THEN <<>>
    ELSE LET k == RunLength(s, class)
         IN  IF k >= 2
             THEN <<" ">> \o CollapseRuns(SubSeq(s, k + 1, Len(s)), class)
             ELSE <<Head(s)>> \o CollapseRuns(Tail(s), class)

\* s.replace(/ch(?=\d)/g, repl), or /\bch(?=\d)/g when boundary is TRUE
ReplaceBeforeDigit(s, ch, repl, boundary) ==
    [i \in 1..Len(s) |->
        IF /\ s[i] = ch
           /\ i < Len(s)
           /\ s[i + 1] \in Digits
           /\ (boundary => (i = 1 \/ s[i - 1] \notin WordChars))
        THEN repl ELSE s[i]]

cleanOCRArtifacts(text) ==
    LET a == CollapseRuns(text, {"|"})
        b == ReplaceBeforeDigit(a, "l", "1", FALSE)
        c == ReplaceBeforeDigit(b, "O", "0", FALSE)
        d == ReplaceBeforeDigit(c, "I", "1", TRUE)
    IN  CollapseRuns(d, Whitespace)

(***************************************************************************)
(* The vocabulary of lines.  Each entry is one concrete line of text and   *)
(* what the regular expressions of the source find in it:                  *)
(*   chars, words   its length; its words longer than 2 characters         *)
(*                  (processor.js, the LOW_OCR_QUALITY count)              *)
(*   kwB, kwT       the BANK_KEYWORDS / TAX_KEYWORDS patterns occurring in *)
(*                  it, one entry per occurrence (index in the list)       *)
(*   bankFills, taxFills, dedFills                                         *)
(*                  the header fields (bank, tax) and deductor fields the  *)
(*                  labelled patterns capture from it, with the value      *)
(*   tableHeader    the headerPatterns of extractTransactions it matches   *)
(*   summary        /total|closing\s+balance|opening\s+balance|.../i       *)
(*   separator      /^[-=_|*\s]+$/                                         *)
(*   dates          its date tokens in order, each as normalizeDate        *)
(*                  returns it ("null" for null)                           *)
(*   amounts        its two-decimal monetary tokens in order               *)
(*   debitKw, creditKw   /dr|debit|withdrawal/i, /cr|credit|deposit/i      *)
(*   start          a deductorStartPattern matches                         *)
(*   tdsHeader      /section/i and /(transaction|date)/i                   *)
(*   total          /total|grand\s+total/i                                 *)
(*   section        the section code /\b(1\d{2}[A-Z]?)\b/ finds, if any    *)
(*   status         the letter /\b(F|U|P|O)\b/ finds, if any               *)
(* "PB" stands for the marker "--- PAGE BREAK ---" that processJob puts    *)
(* between two pages.                                                      *)
(***************************************************************************)
NoLine ==
    [chars |-> 0, words |-> 0, kwB |-> <<>>, kwT |-> <<>>,
     bankFills |-> <<>>, taxFills |-> <<>>, dedFills |-> <<>>,
     tableHeader |-> {}, summary |-> FALSE, separator |-> FALSE,
     dates |-> <<>>, amounts |-> <<>>, debitKw |-> FALSE, creditKw |-> FALSE,
     start |-> FALSE, tdsHeader |-> FALSE, total |-> FALSE,
     section |-> <<>>, status |-> <<>>]

LineInfo ==
    [ \* "Account Number: 12345678901"
      acct |-> [NoLine EXCEPT !.chars = 27, !.words = 3, !.kwB = <<2>>,
                    !.bankFills = [account_number |-> JStr("12345678901")]],
      \* "Statement Period: 01/01/2024 to 31/03/2024"
      period |-> [NoLine EXCEPT !.chars = 42, !.words = 4, !.kwB = <<9>>,
                    !.bankFills = [statement_period_from |-> JStr("2024-01-01"),
                                   statement_period_to |-> JStr("2024-03-31")],
                    !.dates = <<"2024-01-01", "2024-03-31">>],
      \* "Date Description Debit Credit Balance"
      head |-> [NoLine EXCEPT !.chars = 37, !.words = 5, !.kwB = <<6, 7, 13>>,
                    !.tableHeader = {1, 2}, !.debitKw = TRUE, !.creditKw = TRUE],
      \* "01/01/2024 SALARY CREDIT 55,000.00 80,430.50"
      row |-> [NoLine EXCEPT !.chars = 44, !.words = 5, !.kwB = <<7>>,
                    !.dates = <<"2024-01-01">>, !.amounts = <<5500000, 8043050>>,
                    !.creditKw = TRUE],
      \* "Closing Balance: 48,250.75"
      total |-> [NoLine EXCEPT !.chars = 26, !.words = 3, !.kwB = <<4>>,
                    !.bankFills = [closing_balance |-> JNum(4825075)],
                    !.summary = TRUE, !.amounts = <<4825075>>],
      \* "FORM 26AS Assessment Year: 2024-25"
      form |-> [NoLine EXCEPT !.chars = 34, !.words = 5, !.kwT = <<1, 14>>,
                    !.taxFills = [form_type |-> JStr("FORM 26AS"),
                                  assessment_year |-> JStr("2024-25")]],
      \* "Name of Deductor: XYZ Pvt Ltd"
      ded |-> [NoLine EXCEPT !.chars = 29, !.words = 5, !.kwT = <<4>>,
                    !.bankFills = [account_holder_name |-> JStr("of Deductor")],
                    !.dedFills = [name |-> JStr("XYZ Pvt Ltd")],
                    !.start = TRUE],
      \* "192 30/04/2024 F 5500.00"
      tds |-> [NoLine EXCEPT !.chars = 24, !.words = 3,
                    !.dates = <<"2024-04-30">>, !.amounts = <<550000>>,
                    !.section = <<"192">>, !.status = <<"F">>],
      \* "This document was generated electronically and does not require any
      \*  signature please contact your nearest branch office within thirty
      \*  days for any discrepancy found herein" (one line)
      note |-> [NoLine EXCEPT !.chars = 171, !.words = 25, !.creditKw = TRUE],
      \* "45/45/2024 CHEQUE 1,200.00": a date token that is no date
      bad |-> [NoLine EXCEPT !.chars = 26, !.words = 3,
                    !.dates = <<"null">>, !.amounts = <<120000>>],
      \* "02/01/2024 ATM WITHDRAWAL 2,000.00 0.00 78,430.50"
      row3 |-> [NoLine EXCEPT !.chars = 49, !.words = 6,
                    !.dates = <<"2024-01-02">>, !.amounts = <<200000, 0, 7843050>>,
                    !.debitKw = TRUE],
      \* "03/01/2024 UPI DR 750.00 79,680.50"
      dr |-> [NoLine EXCEPT !.chars = 34, !.words = 4,
                    !.dates = <<"2024-01-03">>, !.amounts = <<75000, 7968050>>,
                    !.debitKw = TRUE],
      \* "04/01/2024 POS PURCHASE 500.00 77,930.50"
      plain |-> [NoLine EXCEPT !.chars = 40, !.words = 5,
                    !.dates = <<"2024-01-04">>, !.amounts = <<50000, 7793050>>],
      \* "05/01/2024 CHARGES 77,930.50"
      one |-> [NoLine EXCEPT !.chars = 28, !.words = 3,
                    !.dates = <<"2024-01-05">>, !.amounts = <<7793050>>],
      \* "Section Transaction Date Status Amount Paid Tax Deducted TDS Deposited"
      thead |-> [NoLine EXCEPT !.chars = 70, !.words = 10, !.kwB = <<5>>,
                    !.kwT = <<2, 10>>, !.creditKw = TRUE, !.tdsHeader = TRUE],
      \* "30/04/2024 5500.00 550.00": a date and no section code
      dated |-> [NoLine EXCEPT !.chars = 25, !.words = 3,
                    !.dates = <<"2024-04-30">>, !.amounts = <<550000, 55000>>],
      \* "Total 5500.00 550.00 550.00"
      ttotal |-> [NoLine EXCEPT !.chars = 27, !.words = 4, !.summary = TRUE,
                    !.total = TRUE, !.amounts = <<550000, 55000, 55000>>],
      \* "----------------"
      rule |-> [NoLine EXCEPT !.chars = 16, !.words = 1, !.separator = TRUE],
      \* "--- PAGE BREAK ---"
      PB |-> [NoLine EXCEPT !.chars = 18, !.words = 4] ]

\* the lines of the documents of either type
Items == {"acct", "period", "head", "row", "total", "form", "ded", "tds", "note", "PB"}

\* the texts a PDF may hold
Texts == SeqsUpTo(Items, MaxItems)

\* fullText.split(/\s+/).filter(w => w.length > 2).length
RECURSIVE WordCount(_)
WordCount(text) ==
    IF text = <<>> THEN 0
    ELSE LineInfo[Head(text)].words + WordCount(Tail(text))

\* pages of a text: the number of page boundaries plus one
PageCount(text) == CountEq(text, "PB") + 1

\* data.text.length of pdf-parse: the lines of each page and one character
\* between two lines, two between two pages
RECURSIVE TextLength(_)
TextLength(text) ==
    IF text = <<>> THEN 0
    ELSE (IF Head(text) = "PB" THEN 2 ELSE LineInfo[Head(text)].chars + 1)
         + TextLength(Tail(text))

(***************************************************************************)
(* src/src/parsers/classifier.js                                           *)
(***************************************************************************)
\* groups: the capturing groups of the pattern
BANK_KEYWORDS ==
    << [pattern |-> "bank\\s+statement", weight |-> 5, groups |-> 0],
       [pattern |-> "account\\s+(number|no\\.?|#)", weight |-> 4, groups |-> 1],
       [pattern |-> "opening\\s+balance", weight |-> 5, groups |-> 0],
       [pattern |-> "closing\\s+balance", weight |-> 5, groups |-> 0],
       [pattern |-> "transaction\\s+(date|id|ref)", weight |-> 3, groups |-> 1],
       [pattern |-> "debit", weight |-> 3, groups |-> 0],
       [pattern |-> "credit", weight |-> 2, groups |-> 0],
       [pattern |-> "available\\s+balance", weight |-> 4, groups |-> 0],
       [pattern |-> "statement\\s+period", weight |-> 4, groups |-> 0],
       [pattern |-> "IFSC|swift\\s+code", weight |-> 4, groups |-> 0],
       [pattern |-> "account\\s+type", weight |-> 3, groups |-> 0],
       [pattern |-> "running\\s+balance", weight |-> 4, groups |-> 0],
       [pattern |-> "narration|description", weight |-> 2, groups |-> 0],
       [pattern |-> "passbook", weight |-> 4, groups |-> 0],
       [pattern |-> "savings\\s+account|current\\s+account", weight |-> 3, groups |-> 0] >>

TAX_KEYWORDS ==
    << [pattern |-> "form\\s+(26as|16|16a)", weight |-> 6, groups |-> 1],
       [pattern |-> "tax\\s+deducted\\s+at\\s+source|TDS", weight |-> 6, groups |-> 0],
       [pattern |-> "income\\s+tax", weight |-> 4, groups |-> 0],
       [pattern |-> "deductor", weight |-> 6, groups |-> 0],
       [pattern |-> "PAN\\s+(of\\s+)?(deductee|deductor)", weight |-> 5, groups |-> 2],
       [pattern |-> "TAN", weight |-> 4, groups |-> 0],
       [pattern |-> "section\\s+\\d+[A-Z]?", weight |-> 3, groups |-> 0],
       [pattern |-> "status\\s+of\\s+booking", weight |-> 5, groups |-> 0],
       [pattern |-> "total\\s+tax\\s+deducted", weight |-> 5, groups |-> 0],
       [pattern |-> "TDS\\s+deposited", weight |-> 5, groups |-> 0],
       [pattern |-> "amount\\s+paid.*credited", weight |-> 4, groups |-> 0],
       [pattern |-> "date\\s+of\\s+booking", weight |-> 4, groups |-> 0],
       [pattern |-> "traces|NSDL", weight |-> 4, groups |-> 0],
       [pattern |-> "assessment\\s+year", weight |-> 5, groups |-> 0] >>

\* occurrences in the text of pattern number i of the list named by field
\* ("kwB" or "kwT")
RECURSIVE Occurrences(_, _, _)
Occurrences(text, field, i) ==
    IF text = <<>> THEN 0
    ELSE CountEq(LineInfo[Head(text)][field], i) + Occurrences(Tail(text), field, i)

\* (text.match(pattern) || []).length : the pattern has no g flag, so match
\* returns null or the array of the first match and its capturing groups
MatchArrayLength(text, field, keywords, i) ==
    IF Occurrences(text, field, i) = 0 THEN 0 ELSE 1 + keywords[i].groups

scoreText(text, field, keywords) ==
    SumSeq([i \in 1..Len(keywords) |->
                Min(MatchArrayLength(text, field, keywords, i), 2) * keywords[i].weight])

(***************************************************************************)
(* File names, as the substrings the classifier looks for in them.         *)
(***************************************************************************)
\* which alternatives of /bank|statement|passbook/ and /26as|tds|tax|form16/
\* the lower-cased name contains
Filenames ==
    [ \* "report.pdf"
      report |-> {},
      \* "bank_statement.pdf"
      bank |-> {"bank", "statement"},
      \* "form26as.pdf"
      tax |-> {"26as"},
      \* "bank_tax.pdf"
      both |-> {"bank", "tax"} ]

\* /bank|statement|passbook/.test(fn) ? 10 : 0
bankBonus(filename) ==
    IF Filenames[filename] \cap {"bank", "statement", "passbook"} # {} THEN 10 ELSE 0

\* a mutant: a file name that earned the bank bonus earns no tax bonus
taxBonusExclusive(filename) ==
    IF bankBonus(filename) = 0 /\ Filenames[filename] \cap {"26as", "tds", "tax", "form16"} # {}
    THEN 10 ELSE 0

\* /26as|tds|tax|form16/.test(fn) ? 10 : 0
taxBonus(filename) ==
    IF Filenames[filename] \cap {"26as", "tds", "tax", "form16"} # {} THEN 10 ELSE 0

\* is d a power of two: w / d is then exact in binary floating point
RECURSIVE IsPowerOfTwo(_)
IsPowerOfTwo(d) == d = 1 \/ (d > 1 /\ d % 2 = 0 /\ IsPowerOfTwo(d \div 2))

\* Math.round(Math.min(0.99, w / d) * 100), in hundredths.  The quotient is a
\* double: when 100 * w / d lies exactly half way between two integers and d
\* is no power of two, the double lies just below or just above the half, and
\* the result is either neighbour.
RoundedConfidences(w, d) ==
    IF 100 * w >= 99 * d THEN {99}
    ELSE IF (200 * w) % d = 0 /\ (100 * w) % d # 0 /\ ~IsPowerOfTwo(d)
         THEN {(100 * w) \div d, (100 * w) \div d + 1}
         ELSE {MathRound(100 * w, d)}

\* a mutant: no minimum of evidence is asked for
documentTypeNoThreshold(totalBank, totalTax) ==
    IF totalBank >= totalTax THEN "bank_statement" ELSE "tax_statement"

\* a mutant: ties go to tax
documentTypeTaxOnTie(totalBank, totalTax) ==
    IF Max(totalBank, totalTax) < 8 THEN "unknown"
    ELSE IF totalBank > totalTax THEN "bank_statement" ELSE "tax_statement"

\* the verdict of classifyDocument
documentTypeOf(totalBank, totalTax) ==
    IF Max(totalBank, totalTax) < 8 THEN "unknown"
    ELSE IF totalBank >= totalTax THEN "bank_statement" ELSE "tax_statement"

\* a mutant: the confidence is cut to 2 decimals instead of rounded
classifierConfidencesCut(documentType, totalBank, totalTax) ==
    LET winnerScore == IF documentType = "bank_statement" THEN totalBank ELSE totalTax
        loserScore == IF documentType = "bank_statement" THEN totalTax ELSE totalBank
    IN  IF documentType = "unknown" THEN {0}
        ELSE {Min(99, (100 * winnerScore) \div (winnerScore + loserScore + 1))}

\* the confidences classifyDocument may return with the verdict
classifierConfidences(documentType, totalBank, totalTax) ==
    LET winnerScore == IF documentType = "bank_statement" THEN totalBank ELSE totalTax
        loserScore == IF documentType = "bank_statement" THEN totalTax ELSE totalBank
    IN  IF documentType = "unknown" THEN {0}
        ELSE RoundedConfidences(winnerScore, winnerScore + loserScore + 1)

\* the objects classifyDocument(text, filename) may return; the code leaves
\* bankScore and taxScore out of the object of an unknown verdict, and
\* processJob reads neither
classifyDocument(text, filename) ==
    LET totalBank == scoreText(text, "kwB", BANK_KEYWORDS) + bankBonus(filename)
        totalTax == scoreText(text, "kwT", TAX_KEYWORDS) + taxBonus(filename)
        documentType == documentTypeOf(totalBank, totalTax)
    IN  { [documentType |-> documentType, confidence |-> c,
           bankScore |-> totalBank, taxScore |-> totalTax] :
          c \in classifierConfidences(documentType, totalBank, totalTax) }

(***************************************************************************)
(* The lines the extractors work on: getLines(cleanOCRArtifacts(fullText)).*)
(* processJob joins the pages with "\n\n--- PAGE BREAK ---\n\n";            *)
(* cleanOCRArtifacts turns every run of two or more whitespace characters, *)
(* line ends included, into one blank, so the last line of a page, the     *)
(* marker and the first line of the next page come out as one line.  A     *)
(* line is the sequence of the items it is made of.                        *)
(***************************************************************************)
RECURSIVE JoinLines(_, _, _)
JoinLines(text, lines, glue) ==
    IF text = <<>> THEN lines
    ELSE IF Head(text) = "PB"
         THEN JoinLines(Tail(text),
                        IF lines = <<>> THEN << <<"PB">> >>
                        ELSE [lines EXCEPT ![Len(lines)] = @ \o <<"PB">>],
                        TRUE)
         ELSE IF glue
              THEN JoinLines(Tail(text),
                             [lines EXCEPT ![Len(lines)] = @ \o <<Head(text)>>],
                             FALSE)
              ELSE JoinLines(Tail(text), Append(lines, <<Head(text)>>), FALSE)

getLines(text) == JoinLines(text, <<>>, FALSE)

\* what the patterns find in a line made of several items
LineDates(line) == Flatten([i \in 1..Len(line) |-> LineInfo[line[i]].dates])

LineAmounts(line) == Flatten([i \in 1..Len(line) |-> LineInfo[line[i]].amounts])

LineSections(line) == Flatten([i \in 1..Len(line) |-> LineInfo[line[i]].section])

LineStatuses(line) == Flatten([i \in 1..Len(line) |-> LineInfo[line[i]].status])

LineHas(line, flag) == \E i \in 1..Len(line) : LineInfo[line[i]][flag]

LineIsSeparator(line) == \A i \in 1..Len(line) : LineInfo[line[i]].separator

\* text.match(pattern) of a labelled field: the value the first line holding
\* the label gives, null when no line holds it
RECURSIVE FirstFill(_, _, _)
FirstFill(text, fills, field) ==
    IF text = <<>> THEN JNull
    ELSE IF field \in DOMAIN LineInfo[Head(text)][fills]
         THEN LineInfo[Head(text)][fills][field]
         ELSE FirstFill(Tail(text), fills, field)

\* findIndex: the smallest of the indices that satisfy the test, 0 when none
\* does (findIndex returns -1 then, indices counting from 0)
FindIndex(hits) ==
    IF hits = {} THEN 0 ELSE CHOOSE i \in hits : \A j \in hits : i <= j

\* a mutant: a zero amount is kept
AmountOrNullKeepsZero(amounts, i) ==
    IF i <= Len(amounts) THEN JNum(amounts[i]) ELSE JNull

\* x || null for an amount: 0 and undefined become null
AmountOrNull(amounts, i) ==
    IF i <= Len(amounts) /\ amounts[i] # 0 THEN JNum(amounts[i]) ELSE JNull

\* x ?? null for an amount: only undefined becomes null
AmountOrNullish(amounts, i) ==
    IF i <= Len(amounts) THEN JNum(amounts[i]) ELSE JNull

\* normalizeDate(token) as a JSON value
DateValue(d) == IF d = "null" THEN JNull ELSE JStr(d)

(***************************************************************************)
(* src/src/parsers/bankParser.js                                           *)
(***************************************************************************)
BankHeaderFields ==
    {"bank_name", "account_number", "account_holder_name", "account_type",
     "ifsc_code", "branch", "statement_period_from", "statement_period_to",
     "opening_balance", "closing_balance", "currency"}

\* no line of the vocabulary holds a currency symbol: currency stays 'INR'
extractHeader(text) ==
    [f \in BankHeaderFields |->
        IF f = "currency" THEN JStr("INR") ELSE FirstFill(text, "bankFills", f)]

\* the row of one accepted line, <<>> when the line yields none (null)
parseTransactionRow(line) ==
    LET dates == LineDates(line)
        amounts == LineAmounts(line)
        n == Len(amounts)
    IN  IF dates = <<>> THEN <<>>
        ELSE IF dates[1] = "null" THEN <<>>
        ELSE << ("_raw" :> line) @@
                [date |-> JStr(dates[1]),
                 description |-> JStr("text"),
                 debit |-> IF n >= 3 THEN AmountOrNull(amounts, 1)
                           ELSE IF n = 2 /\ (LineHas(line, "debitKw")
                                             \/ ~LineHas(line, "creditKw"))
                                THEN JNum(amounts[1]) ELSE JNull,
                 credit |-> IF n >= 3 THEN AmountOrNull(amounts, 2)
                            ELSE IF n = 2 /\ ~LineHas(line, "debitKw")
                                          /\ LineHas(line, "creditKw")
                                 THEN JNum(amounts[1]) ELSE JNull,
                 balance |-> IF n >= 3 THEN AmountOrNull(amounts, 3)
                             ELSE IF n = 2 THEN JNum(amounts[2])
                             ELSE IF n = 1 THEN JNum(amounts[1]) ELSE JNull,
                 reference |-> JNull] >>

RECURSIVE ScanRowsPastSummary(_, _)
RECURSIVE ScanRows(_, _)
\* a mutant: a summary line is skipped and the scan goes on
ScanRowsPastSummary(lines, i) ==
    IF i > Len(lines) THEN <<>>
    ELSE IF LineHas(lines[i], "summary") THEN ScanRowsPastSummary(lines, i + 1)
    ELSE IF LineIsSeparator(lines[i]) THEN ScanRowsPastSummary(lines, i + 1)
    ELSE IF LineDates(lines[i]) = <<>> THEN ScanRowsPastSummary(lines, i + 1)
    ELSE parseTransactionRow(lines[i]) \o ScanRowsPastSummary(lines, i + 1)

\* the rows of the lines from index i on, up to the first summary line
ScanRows(lines, i) ==
    IF i > Len(lines) THEN <<>>
    ELSE IF LineHas(lines[i], "summary") THEN <<>>
    ELSE IF LineIsSeparator(lines[i]) THEN ScanRows(lines, i + 1)
    ELSE IF LineDates(lines[i]) = <<>> THEN ScanRows(lines, i + 1)
    ELSE parseTransactionRow(lines[i]) \o ScanRows(lines, i + 1)

RECURSIVE HeuristicRows(_)
HeuristicRows(lines) ==
    IF lines = <<>> THEN <<>>
    ELSE LET dates == LineDates(Head(lines))
             amounts == LineAmounts(Head(lines))
         IN  (IF dates = <<>> \/ amounts = <<>> THEN <<>>
              ELSE << [date |-> DateValue(dates[1]),
                       description |-> JStr("text"),
                       debit |-> AmountOrNull(amounts, 1),
                       credit |-> AmountOrNull(amounts, 2),
                       balance |-> AmountOrNull(amounts, 3),
                       reference |-> JNull] >>)
             \o HeuristicRows(Tail(lines))

\* a mutant: the warning is pushed under another code
parseTransactionHeuristicMiscoded(lines, tableWarnings) ==
    [transactions |-> HeuristicRows(lines),
     tableWarnings |-> Append(tableWarnings, "HEURISTIC")]

parseTransactionHeuristic(lines, tableWarnings) ==
    [transactions |-> HeuristicRows(lines),
     tableWarnings |-> Append(tableWarnings, "HEURISTIC_PARSING")]

\* the index of the table header row: the patterns are tried in order, each
\* over all the lines
headerLineIdx(lines) ==
    LET idx(p) == FindIndex({i \in 1..Len(lines) :
                        \E k \in 1..Len(lines[i]) :
                            p \in LineInfo[lines[i][k]].tableHeader})
    IN  IF idx(1) # 0 THEN idx(1) ELSE IF idx(2) # 0 THEN idx(2) ELSE idx(3)

\* a mutant: the header-driven scan reports a missing header as well
extractTransactionsAlwaysWarns(lines) ==
    IF headerLineIdx(lines) = 0
    THEN parseTransactionHeuristic(lines, <<"NO_TABLE_HEADER">>)
    ELSE [transactions |-> ScanRows(lines, headerLineIdx(lines) + 1),
          tableWarnings |-> <<"NO_TABLE_HEADER">>]

extractTransactions(lines) ==
    IF headerLineIdx(lines) = 0
    THEN parseTransactionHeuristic(lines, <<"NO_TABLE_HEADER">>)
    ELSE [transactions |-> ScanRows(lines, headerLineIdx(lines) + 1),
          tableWarnings |-> <<>>]

\* a mutant: the floor for an extraction with records dropped to 0.1
recordFloorFlat(records) == 10

\* transactions.length > 0 ? 0.5 : 0.1 (and the same for deductors)
recordFloor(records) == IF Len(records) > 0 THEN 50 ELSE 10

\* a mutant: the warning for an empty table is pushed before the table is read
extractBankStatementEmptyFirst(text) ==
    LET lines == getLines(text)
        header == extractHeader(text)
        table == extractTransactions(lines)
        confidence == calcConfidence(header,
            <<"account_number", "statement_period_from", "statement_period_to">>)
    IN  [output |-> [header |-> header, transactions |-> table.transactions],
         confidence |-> Max(confidence, recordFloor(table.transactions)),
         warnings |-> (IF Len(table.transactions) = 0
                       THEN <<"NO_TRANSACTIONS">> ELSE <<>>)
                      \o table.tableWarnings]

extractBankStatement(text) ==
    LET lines == getLines(text)
        header == extractHeader(text)
        table == extractTransactions(lines)
        confidence == calcConfidence(header,
            <<"account_number", "statement_period_from", "statement_period_to">>)
    IN  [output |-> [header |-> header, transactions |-> table.transactions],
         confidence |-> Max(confidence, recordFloor(table.transactions)),
         warnings |-> table.tableWarnings \o
                      (IF Len(table.transactions) = 0
                       THEN <<"NO_TRANSACTIONS">> ELSE <<>>)]

(***************************************************************************)
(* src/src/parsers/taxParser.js                                            *)
(***************************************************************************)
TaxHeaderFields ==
    {"form_type", "assessment_year", "taxpayer_name", "pan", "taxpayer_address",
     "total_amount_paid_credited", "total_tax_deducted", "total_tds_deposited"}

extractTaxHeader(text) ==
    [f \in TaxHeaderFields |-> FirstFill(text, "taxFills", f)]

\* the blocks of the lines from index i on; currentBlock and inBlock are the
\* locals of the loop
RECURSIVE SplitFromAnywhere(_, _, _, _)
RECURSIVE SplitFrom(_, _, _, _)
\* a mutant: the lines before the first section start are kept as well
SplitFromAnywhere(lines, i, currentBlock, inBlock) ==
    IF i > Len(lines)
    THEN IF Len(currentBlock) > 0 THEN <<currentBlock>> ELSE <<>>
    ELSE IF LineHas(lines[i], "start")
         THEN (IF Len(currentBlock) > 0 THEN <<currentBlock>> ELSE <<>>)
              \o SplitFromAnywhere(lines, i + 1, <<lines[i]>>, TRUE)
         ELSE SplitFromAnywhere(lines, i + 1, Append(currentBlock, lines[i]), inBlock)

\* the loop of splitByDeductors from line i on
SplitFrom(lines, i, currentBlock, inBlock) ==
    IF i > Len(lines)
    THEN IF Len(currentBlock) > 0 THEN <<currentBlock>> ELSE <<>>
    ELSE IF LineHas(lines[i], "start")
         THEN (IF Len(currentBlock) > 0 THEN <<currentBlock>> ELSE <<>>)
              \o SplitFrom(lines, i + 1, <<lines[i]>>, TRUE)
         ELSE IF inBlock
              THEN SplitFrom(lines, i + 1, Append(currentBlock, lines[i]), TRUE)
              ELSE SplitFrom(lines, i + 1, currentBlock, FALSE)

\* a mutant: without the fallback to the whole document
splitByDeductorsNoFallback(lines) == SplitFrom(lines, 1, <<>>, FALSE)

splitByDeductors(lines) ==
    LET blocks == SplitFrom(lines, 1, <<>>, FALSE)
    IN  IF Len(blocks) = 0 THEN <<lines>> ELSE blocks

StatusName(letter) ==
    CASE letter = "F" -> "Final"
      [] letter = "U" -> "Unmatched"
      [] letter = "P" -> "Provisional"
      [] letter = "O" -> "Overbooked"

\* the TDS rows of the lines of a block from index i on; hasHeader: a
\* sub-table header was found (headerIdx !== -1)
RECURSIVE ScanTDS(_, _, _)
ScanTDS(lines, i, hasHeader) ==
    IF i > Len(lines) THEN <<>>
    ELSE IF LineIsSeparator(lines[i]) THEN ScanTDS(lines, i + 1, hasHeader)
    ELSE IF LineHas(lines[i], "total") THEN <<>>
    ELSE LET sections == LineSections(lines[i])
             dates == LineDates(lines[i])
             amounts == LineAmounts(lines[i])
             statuses == LineStatuses(lines[i])
             txn == [section |-> IF sections # <<>> THEN JStr(sections[1]) ELSE JNull,
                     transaction_date |-> IF dates # <<>> THEN DateValue(dates[1])
                                          ELSE JNull,
                     booking_date |-> IF Len(dates) >= 2 THEN DateValue(dates[2])
                                      ELSE JNull,
                     status_of_booking |-> IF statuses # <<>>
                                           THEN JStr(StatusName(statuses[1]))
                                           ELSE JNull,
                     remarks |-> JNull,
                     amount_paid_credited |-> AmountOrNullish(amounts, 1),
                     tax_deducted |-> AmountOrNullish(amounts, 2),
                     tds_deposited |-> AmountOrNullish(amounts, 3)]
         IN  IF sections = <<>> /\ hasHeader THEN ScanTDS(lines, i + 1, hasHeader)
             ELSE (IF txn.section # JNull \/ txn.transaction_date # JNull
                   THEN <<txn>> ELSE <<>>)
                  \o ScanTDS(lines, i + 1, hasHeader)

\* a mutant: the scan starts at the first line of the block, header or not
extractTDSTransactionsFromTop(lines) ==
    LET headerIdx == FindIndex({i \in 1..Len(lines) : LineHas(lines[i], "tdsHeader")})
    IN  ScanTDS(lines, 1, headerIdx # 0)

extractTDSTransactions(lines) ==
    LET headerIdx == FindIndex({i \in 1..Len(lines) : LineHas(lines[i], "tdsHeader")})
    IN  ScanTDS(lines, headerIdx + 1, headerIdx # 0)

DeductorFields ==
    {"name", "tan", "pan", "total_amount_paid_credited", "total_tax_deducted",
     "total_tds_deposited"}

parseDeductorBlock(lines) ==
    [f \in DeductorFields \cup {"transactions"} |->
        IF f = "transactions" THEN extractTDSTransactions(lines)
        ELSE FirstFill(Flatten(lines), "dedFills", f)]

\* a mutant: a document without a section start gives no deductor
extractDeductorsOfSections(lines) ==
    LET deductorBlocks == IF \E i \in 1..Len(lines) : LineHas(lines[i], "start")
                          THEN splitByDeductors(lines) ELSE <<>>
    IN  [deductors |-> [b \in 1..Len(deductorBlocks) |->
                            parseDeductorBlock(deductorBlocks[b])],
         tableWarnings |-> <<>>]

extractDeductors(lines) ==
    LET deductorBlocks == splitByDeductors(lines)
    IN  [deductors |-> [b \in 1..Len(deductorBlocks) |->
                            parseDeductorBlock(deductorBlocks[b])],
         tableWarnings |-> <<>>]

extractTaxStatement(text) ==
    LET lines == getLines(text)
        header == extractTaxHeader(text)
        found == extractDeductors(lines)
        confidence == calcConfidence(header, <<"pan", "assessment_year", "taxpayer_name">>)
    IN  [output |-> [header |-> header, deductors |-> found.deductors],
         confidence |-> Max(confidence, recordFloor(found.deductors)),
         warnings |-> found.tableWarnings \o
                      (IF Len(found.deductors) = 0
                       THEN <<"NO_DEDUCTORS">> ELSE <<>>)]

(***************************************************************************)
(* src/unnamed/part_001 (schemas/validator.js).  An object is a function   *)
(* from keys to values, an array a sequence, a scalar a tagged JSON value. *)
(* An error is the place of the value and the keyword it fails; the        *)
(* position of an object in an array is hops (the indices on the path).    *)
(***************************************************************************)
SchemaError(at, hops, key, keyword) ==
    [at |-> at, hops |-> hops, key |-> key, keyword |-> keyword]

\* the properties of obj that are present and not of a type the schema allows
TypeErrors(obj, at, hops, properties) ==
    { SchemaError(at, hops, k, "type") :
        k \in {p \in DOMAIN properties \cap DOMAIN obj : obj[p].t \notin properties[p]} }

\* the required keys that obj lacks (an undefined value counts as absent)
RequiredErrors(obj, at, hops, required) ==
    { SchemaError(at, hops, k, "required") :
        k \in {p \in required : p \notin DOMAIN obj \/ obj[p] = JUndefined} }

Nullable(type) == {type, "null"}

\* baseSchema; the items of warnings are object literals with a string code
\* and a string message, which the items schema accepts
baseSchema(result) ==
    RequiredErrors(result, "", <<>>,
        {"schema_version", "document_id", "document_type", "processing", "confidence"})
    \cup TypeErrors(result, "", <<>>,
        [schema_version |-> {"string"}, document_id |-> {"string"},
         document_type |-> {"string"}, confidence |-> {"number"}])
    \cup (IF result.document_type.s \in {"bank_statement", "tax_statement", "unknown"}
          THEN {} ELSE {SchemaError("", <<>>, "document_type", "enum")})
    \cup TypeErrors(result.processing, "processing", <<>>,
        [is_scanned |-> {"boolean"}, page_count |-> {"number"},
         ocr_applied |-> {"boolean"}])
    \cup (IF result.processing.page_count.n >= 1
          THEN {} ELSE {SchemaError("processing", <<>>, "page_count", "minimum")})
    \cup (IF result.confidence.n >= 0
          THEN {} ELSE {SchemaError("", <<>>, "confidence", "minimum")})
    \cup (IF result.confidence.n <= 100
          THEN {} ELSE {SchemaError("", <<>>, "confidence", "maximum")})

\* a mutant: the date of a transaction has to be a string
TransactionPropertiesStrictDate ==
    [date |-> {"string"}, description |-> Nullable("string"),
     debit |-> Nullable("number"), credit |-> Nullable("number"),
     balance |-> Nullable("number"), reference |-> Nullable("string")]

\* bankSchema.properties.transactions.items.properties
TransactionProperties ==
    [date |-> Nullable("string"), description |-> Nullable("string"),
     debit |-> Nullable("number"), credit |-> Nullable("number"),
     balance |-> Nullable("number"), reference |-> Nullable("string")]

bankSchema(result) ==
    baseSchema(result)
    \cup TypeErrors(result.header, "header", <<>>,
        [bank_name |-> Nullable("string"), account_number |-> Nullable("string"),
         account_holder_name |-> Nullable("string"), account_type |-> Nullable("string"),
         ifsc_code |-> Nullable("string"), branch |-> Nullable("string"),
         statement_period_from |-> Nullable("string"),
         statement_period_to |-> Nullable("string"),
         opening_balance |-> Nullable("number"), closing_balance |-> Nullable("number"),
         currency |-> {"string"}])
    \cup UNION { RequiredErrors(result.transactions[i], "transactions", <<i>>, {"date"})
                 \cup TypeErrors(result.transactions[i], "transactions", <<i>>,
                                 TransactionProperties)
                 : i \in 1..Len(result.transactions) }

taxSchema(result) ==
    baseSchema(result)
    \cup TypeErrors(result.header, "header", <<>>,
        [form_type |-> Nullable("string"), assessment_year |-> Nullable("string"),
         taxpayer_name |-> Nullable("string"), pan |-> Nullable("string"),
         taxpayer_address |-> Nullable("string"),
         total_amount_paid_credited |-> Nullable("number"),
         total_tax_deducted |-> Nullable("number"),
         total_tds_deposited |-> Nullable("number")])
    \cup UNION { TypeErrors(result.deductors[i], "deductors", <<i>>,
                    [name |-> Nullable("string"), tan |-> Nullable("string"),
                     pan |-> Nullable("string"),
                     total_amount_paid_credited |-> Nullable("number"),
                     total_tax_deducted |-> Nullable("number"),
                     total_tds_deposited |-> Nullable("number")])
                 \cup UNION { TypeErrors(result.deductors[i].transactions[j],
                                "deductors.transactions", <<i, j>>,
                                [section |-> Nullable("string"),
                                 transaction_date |-> Nullable("string"),
                                 booking_date |-> Nullable("string"),
                                 status_of_booking |-> Nullable("string"),
                                 remarks |-> Nullable("string"),
                                 amount_paid_credited |-> Nullable("number"),
                                 tax_deducted |-> Nullable("number"),
                                 tds_deposited |-> Nullable("number")])
                              : j \in 1..Len(result.deductors[i].transactions) }
                 : i \in 1..Len(result.deductors) }

\* the elements of a finite set as a sequence, in some order
RECURSIVE SetToSeq(_)
SetToSeq(S) ==
    IF S = {} THEN <<>>
    ELSE LET x == CHOOSE y \in S : TRUE IN <<x>> \o SetToSeq(S \ {x})

validateResult(result, documentType) ==
    LET found == IF documentType = "bank_statement" THEN bankSchema(result)
                 ELSE IF documentType = "tax_statement" THEN taxSchema(result)
                 ELSE baseSchema(result)
    IN  [valid |-> found = {}, errors |-> SetToSeq(found)]

(***************************************************************************)
(* src/src/workers/processor.js: processJob, one action per stretch        *)
(* between the points where it writes to the database or may throw.        *)
(***************************************************************************)
\* the kinds of PDF behind filePath: with a text layer, without one, encrypted
PdfKinds == {"text", "scanned", "encrypted"}

\* the jobs the upload route can queue: text is what the text layer holds
\* or, for a PDF without one, what OCR reads from the rendered pages
Jobs ==
    { [text |-> t, originalName |-> f, pdf |-> k] :
        t \in Texts, f \in DOMAIN Filenames, k \in PdfKinds }

\* src/src/extractors/pdfProcessor.js
detectTextLayer(j) ==
    IF j.pdf = "encrypted"
    THEN [hasTextLayer |-> FALSE, pageCount |-> 0, isEncrypted |-> TRUE]
    ELSE [hasTextLayer |-> j.pdf = "text"
                           /\ TextLength(j.text) > 50 * Max(PageCount(j.text), 1),
          pageCount |-> PageCount(j.text), isEncrypted |-> FALSE]

\* a mutant: the two confidences weigh the same
overallConfidenceUnweighted(classifyConfidence, extractionConfidence) ==
    MathRound(classifyConfidence + extractionConfidence, 2)

\* Math.round((classifyConfidence * 0.2 + extractionConfidence * 0.8) * 100) / 100
overallConfidence(classifyConfidence, extractionConfidence) ==
    MathRound(2 * classifyConfidence + 8 * extractionConfidence, 10)

\* extractionResult.warnings || []
WarningsOf(extraction) ==
    IF "warnings" \in DOMAIN extraction THEN extraction.warnings ELSE <<>>

\* ...extractionResult.output
OutputOf(extraction) ==
    IF "output" \in DOMAIN extraction THEN extraction.output ELSE <<>>

\* the object built at step 6, before validation
AssembleResult(documentType, scanned, pageCount, confidence, allWarnings, output) ==
    output @@
    [schema_version |-> JStr("1.0"),
     document_id |-> JStr("documentId"),
     document_type |-> JStr(documentType),
     processing |-> [is_scanned |-> JBool(scanned),
                     page_count |-> JNum(pageCount),
                     ocr_applied |-> JBool(scanned)],
     confidence |-> JNum(confidence),
     warnings |-> allWarnings]

\* src/src/db/models.js: UPDATE jobs SET status = ?, error_message = ? WHERE
\* id = ?, which changes nothing while the jobs table has no row of the job;
\* row is the status and the error message of the row
updateJobStatus(row, status, error_message) ==
    IF row[1] = "absent" THEN row ELSE <<status, error_message>>

\* the catch block: the job and the document are marked failed
Failed(code) ==
    /\ jobStatus' = updateJobStatus(<<jobStatus, jobError>>, "failed", code)[1]
    /\ jobError' = updateJobStatus(<<jobStatus, jobError>>, "failed", code)[2]
    /\ docStatus' = "failed"
    /\ pc' = "failed"

StartJob ==
    /\ pc = "queued"
    /\ jobStatus' = updateJobStatus(<<jobStatus, jobError>>, "running", "none")[1]
    /\ jobError' = updateJobStatus(<<jobStatus, jobError>>, "running", "none")[2]
    /\ docStatus' = "processing"
    /\ warnings' = <<>>
    /\ isScanned' = FALSE
    /\ pageTexts' = <<>>
    /\ pc' = "detect"
    /\ UNCHANGED <<job, classification, extractionResult, finalResult,
                   schemaErrors, results, attemptsMade, response,
                   calcVars, cleanVars, amountVars, dateVars, uploadVars, splitVars, handlerVars>>

DetectTextLayer ==
    /\ pc = "detect"
    /\ IF detectTextLayer(job).isEncrypted /\ ~unlinked
       THEN Failed("ENCRYPTED_PDF")
       ELSE /\ pc' = "read"
            /\ UNCHANGED <<jobStatus, docStatus, jobError>>
    /\ UNCHANGED <<job, warnings, isScanned, pageTexts, classification,
                   extractionResult, finalResult, schemaErrors, results,
                   attemptsMade, response,
                   calcVars, cleanVars, amountVars, dateVars, uploadVars, splitVars, handlerVars>>

\* steps 2 and 3: the text layer, or OCR of every page
ReadText ==
    /\ pc = "read"
    /\ ~unlinked
    /\ pageTexts' = job.text
    /\ IF detectTextLayer(job).hasTextLayer
       THEN UNCHANGED <<isScanned, warnings>>
       ELSE /\ isScanned' = TRUE
            /\ warnings' = <<"SCANNED_PDF">> \o
                           (IF WordCount(job.text) < 20
                            THEN <<"LOW_OCR_QUALITY">> ELSE <<>>)
    /\ pc' = "classify"
    /\ UNCHANGED <<job, jobStatus, docStatus, jobError, classification,
                   extractionResult, finalResult, schemaErrors, results,
                   attemptsMade, response,
                   calcVars, cleanVars, amountVars, dateVars, uploadVars, splitVars, handlerVars>>

\* runOCR throws on a page
OcrFails ==
    /\ pc = "read"
    /\ ~detectTextLayer(job).hasTextLayer
    /\ Failed("OCR_ERROR")
    /\ UNCHANGED <<job, warnings, isScanned, pageTexts, classification,
                   extractionResult, finalResult, schemaErrors, results,
                   attemptsMade, response,
                   calcVars, cleanVars, amountVars, dateVars, uploadVars, splitVars, handlerVars>>

Classify ==
    /\ pc = "classify"
    /\ \E c \in classifyDocument(pageTexts, job.originalName) :
        /\ classification' = c
        /\ warnings' = IF c.documentType = "unknown"
                       THEN Append(warnings, "UNKNOWN_DOCUMENT_TYPE")
                       ELSE warnings
    /\ pc' = "extract"
    /\ UNCHANGED <<job, jobStatus, docStatus, jobError, isScanned, pageTexts,
                   extractionResult, finalResult, schemaErrors, results,
                   attemptsMade, response,
                   calcVars, cleanVars, amountVars, dateVars, uploadVars, splitVars, handlerVars>>

Extract ==
    /\ pc = "extract"
    /\ extractionResult' =
         IF classification.documentType = "bank_statement"
         THEN extractBankStatement(pageTexts)
         ELSE IF classification.documentType = "tax_statement"
         THEN extractTaxStatement(pageTexts)
         ELSE [fields |-> <<>>, tables |-> <<>>, confidence |-> 10]
    /\ pc' = "assemble"
    /\ UNCHANGED <<job, jobStatus, docStatus, jobError, warnings, isScanned,
                   pageTexts, classification, finalResult, schemaErrors, results,
                   attemptsMade, response,
                   calcVars, cleanVars, amountVars, dateVars, uploadVars, splitVars, handlerVars>>

\* steps 6 and 7: the result object and its validation
Assemble ==
    /\ pc = "assemble"
    /\ LET built == AssembleResult(classification.documentType, isScanned,
                        detectTextLayer(job).pageCount,
                        overallConfidence(classification.confidence,
                                          extractionResult.confidence),
                        warnings \o WarningsOf(extractionResult),
                        OutputOf(extractionResult))
           checked == validateResult(built, classification.documentType)
           added == [i \in 1..Len(checked.errors) |-> "SCHEMA_VALIDATION"]
       IN  /\ schemaErrors' = checked.errors
           /\ IF checked.valid
              THEN /\ finalResult' = built
                   /\ UNCHANGED warnings
              ELSE /\ finalResult' = [built EXCEPT !.warnings = @ \o added]
                   /\ warnings' = warnings \o added
    /\ pc' = "persist"
    /\ UNCHANGED <<job, jobStatus, docStatus, jobError, isScanned, pageTexts,
                   classification, extractionResult, results, attemptsMade, response,
                   calcVars, cleanVars, amountVars, dateVars, uploadVars, splitVars, handlerVars>>

\* step 8: insertResult; results.job_id references jobs(id), so the INSERT
\* is refused while the jobs table has no row of the job
Persist ==
    /\ pc = "persist"
    /\ IF jobStatus = "absent"
       THEN /\ Failed("ER_NO_REFERENCED_ROW_2")
            /\ UNCHANGED results
       ELSE /\ results' = Append(results,
                             [json_result |-> finalResult,
                              schema_version |-> "1.0",
                              confidence |-> finalResult.confidence.n,
                              document_type |-> classification.documentType])
            /\ pc' = "complete"
            /\ UNCHANGED <<jobStatus, docStatus, jobError>>
    /\ UNCHANGED <<job, warnings, isScanned,
                   pageTexts, classification, extractionResult, finalResult,
                   schemaErrors, attemptsMade, response,
                   calcVars, cleanVars, amountVars, dateVars, uploadVars, splitVars, handlerVars>>

Complete ==
    /\ pc = "complete"
    /\ docStatus' = "done"
    /\ jobStatus' = updateJobStatus(<<jobStatus, jobError>>, "success", "none")[1]
    /\ jobError' = updateJobStatus(<<jobStatus, jobError>>, "success", "none")[2]
    /\ pc' = "done"
    /\ UNCHANGED <<job, warnings, isScanned, pageTexts, classification,
                   extractionResult, finalResult, schemaErrors, results,
                   attemptsMade, response,
                   calcVars, cleanVars, amountVars, dateVars, uploadVars, splitVars, handlerVars>>

\* src/unnamed/part_000 (workers/queue.js): jobs are added with attempts: 2
attempts == 2

\* the queue runs processJob again for a job whose attempt threw, while
\* attempts are left
Retry ==
    /\ pc = "failed"
    /\ attemptsMade + 1 < attempts
    /\ attemptsMade' = attemptsMade + 1
    /\ pc' = "queued"
    /\ UNCHANGED <<job, jobStatus, jobError, docStatus, warnings, isScanned, pageTexts,
                   classification, extractionResult, finalResult, schemaErrors, results,
                   response, calcVars, cleanVars, amountVars, dateVars, uploadVars, splitVars, handlerVars>>

\* src/src/db/models.js: getResultByJobId, the row of the job or none; the
\* stored result holds JSON values only, which JSON.stringify and JSON.parse
\* give back as they were
getResultByJobId(rows) == IF rows = <<>> THEN JNull ELSE rows[1]

\* a mutant: only a failed job is answered with 202
getJobResultFailedOnly(status, error_message, rows) ==
    IF status = "failed"
    THEN [code |-> 202,
          body |-> [status |-> status,
                    message |-> IF status = "failed" THEN <<"Job failed", error_message>>
                                ELSE <<"Job not yet complete">>,
                    error_message |-> IF error_message = "none" THEN JNull
                                      ELSE JStr(error_message)]]
    ELSE IF getResultByJobId(rows) = JNull
    THEN [code |-> 404, body |-> [error |-> "Result not found"]]
    ELSE [code |-> 200, body |-> getResultByJobId(rows).json_result]

\* src/src/routes/jobs.js: GET /:id/result for the row of an existing job
getJobResult(status, error_message, rows) ==
    IF status # "success"
    THEN [code |-> 202,
          body |-> [status |-> status,
                    message |-> IF status = "failed" THEN <<"Job failed", error_message>>
                                ELSE <<"Job not yet complete">>,
                    error_message |-> IF error_message = "none" THEN JNull
                                      ELSE JStr(error_message)]]
    ELSE IF getResultByJobId(rows) = JNull
    THEN [code |-> 404, body |-> [error |-> "Result not found"]]
    ELSE [code |-> 200, body |-> getResultByJobId(rows).json_result]

\* a client asks for the result, at any moment
GetResult ==
    /\ response' = getJobResult(jobStatus, jobError, results)
    /\ response' # response
    /\ UNCHANGED <<job, pc, jobStatus, jobError, docStatus, warnings, isScanned, pageTexts,
                   classification, extractionResult, finalResult, schemaErrors, results,
                   attemptsMade, calcVars, cleanVars, amountVars, dateVars, uploadVars, splitVars, handlerVars>>

\* the variables a specification does not use
IdlePipeline ==
    /\ job = JUndefined
    /\ pc = "idle"
    /\ jobStatus = "none"
    /\ docStatus = "none"
    /\ jobError = "none"
    /\ warnings = <<>>
    /\ isScanned = FALSE
    /\ pageTexts = <<>>
    /\ classification = JUndefined
    /\ extractionResult = JUndefined
    /\ finalResult = JUndefined
    /\ schemaErrors = <<>>
    /\ results = <<>>
    /\ attemptsMade = 0
    /\ response = JUndefined

IdleCalc ==
    /\ cfFields = <<>>
    /\ cfRequired = <<>>
    /\ cfResult = JUndefined

IdleClean ==
    /\ ocrText = <<>>
    /\ ocrPasses = <<>>

IdleAmount ==
    /\ amtText = <<>>
    /\ amtPlain = JUndefined
    /\ amtParen = JUndefined

IdleDate ==
    /\ dateText = JUndefined
    /\ dateNative = JUndefined
    /\ dateResult = JUndefined

IdleUpload ==
    /\ documents = <<>>
    /\ jobRows = <<>>
    /\ queued = <<>>

IdleSplit ==
    /\ splitLines = <<>>
    /\ splitBlocks = <<>>

IdleHandler ==
    /\ handler = "idle"
    /\ unlinked = FALSE

\* the state after the upload route has stored the document and queued the job
Init ==
    /\ job \in Jobs
    /\ pc = "queued"
    /\ jobStatus = "queued"
    /\ docStatus = "pending"
    /\ jobError = "none"
    /\ warnings = <<>>
    /\ isScanned = FALSE
    /\ pageTexts = <<>>
    /\ classification = JUndefined
    /\ extractionResult = JUndefined
    /\ finalResult = JUndefined
    /\ schemaErrors = <<>>
    /\ results = <<>>
    /\ attemptsMade = 0
    /\ response = JUndefined
    /\ IdleCalc
    /\ IdleClean
    /\ IdleAmount
    /\ IdleDate
    /\ IdleUpload
    /\ IdleSplit
    /\ IdleHandler

Next ==
    \/ StartJob
    \/ DetectTextLayer
    \/ ReadText
    \/ OcrFails
    \/ Classify
    \/ Extract
    \/ Assemble
    \/ Persist
    \/ Complete
    \/ Retry
    \/ GetResult

Spec == Init /\ [][Next]_vars

(***************************************************************************)
(* calcConfidence on arbitrary field maps and required lists.              *)
(***************************************************************************)
CalcKeys == {"a", "b", "c"}

CalcValues == {JNull, JUndefined, JStr(""), JStr("v"), JNum(0)}

FieldMaps == UNION { [K -> CalcValues] : K \in SUBSET CalcKeys }

InitCalc ==
    /\ cfFields \in FieldMaps
    /\ cfRequired \in SeqsUpTo(CalcKeys, MaxRequired)
    /\ cfResult = JUndefined
    /\ IdlePipeline
    /\ IdleClean
    /\ IdleAmount
    /\ IdleDate
    /\ IdleUpload
    /\ IdleSplit
    /\ IdleHandler

ApplyCalcConfidence ==
    /\ cfResult = JUndefined
    /\ cfResult' = JNum(calcConfidence(cfFields, cfRequired))
    /\ UNCHANGED <<cfFields, cfRequired, pipeVars, cleanVars, amountVars, dateVars, uploadVars, splitVars, handlerVars>>

NextCalc == ApplyCalcConfidence

SpecCalc == InitCalc /\ [][NextCalc]_vars

(***************************************************************************)
(* cleanOCRArtifacts applied again and again to an arbitrary text.         *)
(***************************************************************************)
\* passes of cleanOCRArtifacts over one text
MaxPasses == 2

Chars == {"|", "l", "O", "I", "7", " ", "\n", "a"}

InitClean ==
    /\ ocrText \in SeqsUpTo(Chars, MaxChars)
    /\ ocrPasses = <<>>
    /\ IdlePipeline
    /\ IdleCalc
    /\ IdleAmount
    /\ IdleDate
    /\ IdleUpload
    /\ IdleSplit
    /\ IdleHandler

CleanPass ==
    /\ Len(ocrPasses) < MaxPasses
    /\ ocrPasses' = Append(ocrPasses,
                       cleanOCRArtifacts(IF ocrPasses = <<>> THEN ocrText
                                         ELSE ocrPasses[Len(ocrPasses)]))
    /\ UNCHANGED <<ocrText, pipeVars, calcVars, amountVars, dateVars, uploadVars, splitVars, handlerVars>>

NextClean == CleanPass

SpecClean == InitClean /\ [][NextClean]_vars

(***************************************************************************)
(* Properties of calcConfidence.                                           *)
(***************************************************************************)
\* r is p / q rounded to the nearest integer, halves up (q > 0)
IsRounded(r, p, q) == 2 * r * q <= 2 * p + q /\ 2 * p + q < 2 * (r + 1) * q

\* a value that is neither null nor undefined
NonNull(v) == v.t \notin {"null", "undefined"}

\* a value that counts as filled: non-null and not the empty string
FilledValue(v) == NonNull(v) /\ v # JStr("")

\* the entries of the required list whose key the map holds
RequiredPresent == {i \in 1..Len(cfRequired) : cfRequired[i] \in DOMAIN cfFields}

\* C4 as stated: calcConfidence is 0.4 x (non-null fields / fields) + 0.6 x
\* (non-null required fields / required keys) rounded to 2 decimals, for
\* every field map and required list; 0 for the empty map.  (Nothing is
\* required of it here when the required list is empty, where the second
\* quotient has no value.)
C4_AsStated ==
    cfResult # JUndefined =>
        LET n == Cardinality(DOMAIN cfFields)
            m == Len(cfRequired)
            nonNull == Cardinality({k \in DOMAIN cfFields : NonNull(cfFields[k])})
            requiredNonNull ==
                Cardinality({i \in RequiredPresent : NonNull(cfFields[cfRequired[i]])})
        IN  IF n = 0 THEN cfResult.n = 0
            ELSE m > 0 => IsRounded(cfResult.n,
                                    40 * nonNull * m + 60 * requiredNonNull * n, n * m)

\* C4 amended: calcConfidence is 0.4 x (filled fields / fields) + 0.6 x
\* (filled required fields / required keys) rounded to 2 decimals, where a
\* field is filled when it is neither null, undefined nor the empty string and
\* the second quotient is 1 when the required list is empty; it is 0 for the
\* empty map and 1 when every field is filled and the required keys are all
\* the keys.
C4_CalcConfidence ==
    cfResult # JUndefined =>
        LET n == Cardinality(DOMAIN cfFields)
            m == Len(cfRequired)
            filled == Cardinality({k \in DOMAIN cfFields : FilledValue(cfFields[k])})
            requiredFilled ==
                Cardinality({i \in RequiredPresent : FilledValue(cfFields[cfRequired[i]])})
        IN  /\ IF n = 0 THEN cfResult.n = 0
               ELSE IF m = 0 THEN IsRounded(cfResult.n, 40 * filled + 60 * n, n)
               ELSE IsRounded(cfResult.n,
                              40 * filled * m + 60 * requiredFilled * n, n * m)
            /\ (/\ n > 0
                /\ filled = n
                /\ {cfRequired[i] : i \in 1..Len(cfRequired)} = DOMAIN cfFields)
               => cfResult.n = 100

\* a map with an empty string and a filled value, scored against a required
\* list that names both
C4_Witness ==
    /\ cfResult # JUndefined
    /\ cfFields = [a |-> JStr(""), b |-> JStr("v")]
    /\ cfRequired = <<"a", "b">>
    /\ cfResult.n = 50

(***************************************************************************)
(* Properties of cleanOCRArtifacts.                                        *)
(***************************************************************************)
\* C10: cleaning is idempotent: a second pass over an already cleaned text
\* leaves it as the first pass made it.
C10_Idempotent ==
    Len(ocrPasses) >= 2 => ocrPasses[2] = ocrPasses[1]

(***************************************************************************)
(* Properties of the pipeline.                                             *)
(***************************************************************************)
Classified == classification # JUndefined

Extracted == extractionResult # JUndefined

Assembled == finalResult # JUndefined

\* the codes of the warnings of the final result
FinalCodes == {finalResult.warnings[i] : i \in 1..Len(finalResult.warnings)}

\* the totals of the classifier for the text and the file name of the job
TotalBank == scoreText(pageTexts, "kwB", BANK_KEYWORDS) + bankBonus(job.originalName)

TotalTax == scoreText(pageTexts, "kwT", TAX_KEYWORDS) + taxBonus(job.originalName)

\* C1: the verdict is unknown, with confidence 0, exactly when both totals
\* (file name bonus included) are below 8; otherwise it is bank_statement when
\* totalBank >= totalTax and tax_statement when totalTax > totalBank.
C1_Verdict ==
    Classified =>
        /\ (classification.documentType = "unknown") <=> (TotalBank < 8 /\ TotalTax < 8)
        /\ classification.documentType = "unknown" => classification.confidence = 0
        /\ (classification.documentType = "bank_statement")
              <=> (~(TotalBank < 8 /\ TotalTax < 8) /\ TotalBank >= TotalTax)
        /\ (classification.documentType = "tax_statement")
              <=> (~(TotalBank < 8 /\ TotalTax < 8) /\ TotalTax > TotalBank)

\* a tie at or above the threshold, settled for bank_statement
C1_Witness ==
    /\ Classified
    /\ TotalBank = TotalTax
    /\ TotalBank >= 8
    /\ classification.documentType = "bank_statement"

\* is the header absent or without any extracted value
EmptyHeader ==
    "header" \in DOMAIN finalResult =>
        \A k \in DOMAIN finalResult.header : finalResult.header[k] = JNull

\* is the record list absent or empty
EmptyRecords ==
    /\ "transactions" \in DOMAIN finalResult => finalResult.transactions = <<>>
    /\ "deductors" \in DOMAIN finalResult => finalResult.deductors = <<>>

\* C2 as stated: for empty input text, whatever the file name, the final
\* result is of type unknown, with an empty header, an empty record list,
\* confidence <= 0.1 and a warning NO_TRANSACTIONS or NO_DEDUCTORS.
C2_AsStated ==
    (Assembled /\ pageTexts = <<>>) =>
        /\ finalResult.document_type = JStr("unknown")
        /\ EmptyHeader
        /\ EmptyRecords
        /\ finalResult.confidence.n <= 10
        /\ FinalCodes \cap {"NO_TRANSACTIONS", "NO_DEDUCTORS"} # {}

\* C2 amended: for empty input text and a file name that hints at neither
\* type, the final result is of type unknown, with no header, no record
\* list, confidence <= 0.1 and a warning UNKNOWN_DOCUMENT_TYPE.
C2_EmptyText ==
    (Assembled /\ pageTexts = <<>> /\ Filenames[job.originalName] = {}) =>
        /\ finalResult.document_type = JStr("unknown")
        /\ DOMAIN finalResult \cap {"header", "transactions", "deductors"} = {}
        /\ finalResult.confidence.n <= 10
        /\ "UNKNOWN_DOCUMENT_TYPE" \in FinalCodes

C2_Witness ==
    /\ pc = "done"
    /\ pageTexts = <<>>
    /\ Filenames[job.originalName] = {}
    /\ finalResult.confidence.n = 8

\* C3: the classifier's confidence, the extractor's confidence and the
\* document's confidence all lie in [0,1], and the document's confidence is
\* 0.2 x classification confidence + 0.8 x extraction confidence rounded to 2
\* decimals.
C3_Confidences ==
    /\ Classified => classification.confidence \in 0..100
    /\ Extracted => extractionResult.confidence \in 0..100
    /\ Assembled =>
        /\ finalResult.confidence.n \in 0..100
        /\ IsRounded(finalResult.confidence.n,
                     2 * classification.confidence + 8 * extractionResult.confidence,
                     10)

\* a result whose two confidences differ and whose blend is rounded
C3_Witness ==
    /\ Assembled
    /\ classification.confidence = 91
    /\ extractionResult.confidence = 10
    /\ finalResult.confidence.n = 26

\* the records of the extraction
RecordsOf(extraction) ==
    IF "transactions" \in DOMAIN extraction.output
    THEN extraction.output.transactions ELSE extraction.output.deductors

\* the keys each extractor requires of its header
RequiredOf(documentType) ==
    IF documentType = "bank_statement"
    THEN <<"account_number", "statement_period_from", "statement_period_to">>
    ELSE <<"pan", "assessment_year", "taxpayer_name">>

\* C5: an extractor's confidence is max(calcConfidence(header, required
\* keys), f), f = 0.5 when a record was extracted and 0.1 when none was.
C5_ExtractorConfidence ==
    (Extracted /\ classification.documentType # "unknown") =>
        LET header == calcConfidence(extractionResult.output.header,
                                     RequiredOf(classification.documentType))
            f == IF Len(RecordsOf(extractionResult)) >= 1 THEN 50 ELSE 10
        IN  /\ extractionResult.confidence >= header
            /\ extractionResult.confidence >= f
            /\ extractionResult.confidence \in {header, f}

\* records were extracted and the header alone would have scored less
C5_Witness ==
    /\ Extracted
    /\ classification.documentType = "bank_statement"
    /\ Len(extractionResult.output.transactions) >= 1
    /\ calcConfidence(extractionResult.output.header,
                      RequiredOf("bank_statement")) < 50
    /\ extractionResult.confidence = 50

\* C6: for a verdict other than unknown the classifier's confidence is
\* min(0.99, winner / (winner + loser + 1)) rounded to 2 decimals: 0.99 when
\* the quotient reaches it, else a hundredth nearest to the quotient.
C6_ClassifierConfidence ==
    (Classified /\ classification.documentType # "unknown") =>
        LET winner == IF classification.documentType = "bank_statement"
                      THEN TotalBank ELSE TotalTax
            loser == IF classification.documentType = "bank_statement"
                     THEN TotalTax ELSE TotalBank
            d == winner + loser + 1
            c == classification.confidence
        IN  IF 100 * winner >= 99 * d THEN c = 99
            ELSE /\ 2 * (c * d - 100 * winner) <= d
                 /\ 2 * (100 * winner - c * d) <= d

\* 8 / (8 + 0 + 1) = 0.888... gives 0.89
C6_Witness ==
    /\ Classified
    /\ classification.documentType = "bank_statement"
    /\ TotalBank = 8
    /\ TotalTax = 0
    /\ classification.confidence = 89

\* the sum over the patterns of min(occurrences, 2) x weight
RECURSIVE ScoreByOccurrences(_, _, _, _)
ScoreByOccurrences(text, field, keywords, i) ==
    IF i > Len(keywords) THEN 0
    ELSE Min(Occurrences(text, field, i), 2) * keywords[i].weight
         + ScoreByOccurrences(text, field, keywords, i + 1)

\* C7: each pattern contributes min(n, 2) x weight to its score, n being the
\* number of its occurrences in the text.
C7_AsStated ==
    Classified =>
        /\ classification.bankScore - bankBonus(job.originalName)
             = ScoreByOccurrences(pageTexts, "kwB", BANK_KEYWORDS, 1)
        /\ classification.taxScore - taxBonus(job.originalName)
             = ScoreByOccurrences(pageTexts, "kwT", TAX_KEYWORDS, 1)

WarningCodesAsStated ==
    {"NO_DEDUCTORS", "NO_TRANSACTIONS", "NO_TABLE_HEADER", "HEURISTIC_PARSING",
     "SCHEMA_VALIDATION", "UNKNOWN_DOCUMENT_TYPE"}

\* C9 as stated: every warning of a final result has a code among
\* NO_DEDUCTORS, NO_TRANSACTIONS, NO_TABLE_HEADER, HEURISTIC_PARSING,
\* SCHEMA_VALIDATION and UNKNOWN_DOCUMENT_TYPE.
C9_AsStated == Assembled => FinalCodes \subseteq WarningCodesAsStated

\* C9 amended: every warning of a final result has a code among those six,
\* SCANNED_PDF and LOW_OCR_QUALITY.
C9_WarningCodes ==
    Assembled =>
        FinalCodes \subseteq WarningCodesAsStated \cup {"SCANNED_PDF", "LOW_OCR_QUALITY"}

\* a scanned document with little text, parsed heuristically without rows
C9_Witness ==
    /\ pc = "done"
    /\ FinalCodes = {"SCANNED_PDF", "LOW_OCR_QUALITY", "NO_TABLE_HEADER",
                     "HEURISTIC_PARSING", "NO_TRANSACTIONS"}

(***************************************************************************)
(* src/src/utils/normalize.js: normalizeAmount, on a string given as its   *)
(* sequence of characters.  A parsed number is an integer count of units   *)
(* of 10^-(MaxAmountChars - 1), so that every decimal the strings can      *)
(* spell (a point and at most MaxAmountChars - 1 digits after it) is exact.*)
(***************************************************************************)
\* characters of a string handed to normalizeAmount
MaxAmountChars == 4

AmountChars == {"(", ")", "-", "7", ".", ",", "a"}

\* what parseFloat returns for a string that does not start with a number
NaN == [t |-> "NaN"]

DigitChars == <<"0", "1", "2", "3", "4", "5", "6", "7", "8", "9">>

\* \d, every digit
AllDigits == {DigitChars[k] : k \in 1..10}

DigitValue(c) == (CHOOSE k \in 1..10 : DigitChars[k] = c) - 1

RECURSIVE Pow10(_)
Pow10(n) == IF n = 0 THEN 1 ELSE 10 * Pow10(n - 1)

\* the number a sequence of digits spells
RECURSIVE IntOf(_)
IntOf(ds) ==
    IF ds = <<>> THEN 0
    ELSE IntOf(SubSeq(ds, 1, Len(ds) - 1)) * 10 + DigitValue(ds[Len(ds)])

\* s.replace(/[class]/g, '')
RECURSIVE RemoveAll(_, _)
RemoveAll(s, class) ==
    IF s = <<>> THEN <<>>
    ELSE (IF Head(s) \in class THEN <<>> ELSE <<Head(s)>>) \o RemoveAll(Tail(s), class)

\* parseFloat(s): an optional sign, digits, an optional point and digits; what
\* follows is ignored; NaN when there is no digit
parseFloat(s) ==
    LET signed == s # <<>> /\ Head(s) \in {"-", "+"}
        body == IF signed THEN Tail(s) ELSE s
        k == RunLength(body, Digits)
        rest == SubSeq(body, k + 1, Len(body))
        f == IF rest # <<>> /\ Head(rest) = "." THEN RunLength(Tail(rest), Digits) ELSE 0
        magnitude == IntOf(SubSeq(body, 1, k) \o SubSeq(rest, 2, f + 1))
                     * Pow10(MaxAmountChars - 1 - f)
    IN  IF k + f = 0 THEN NaN
        ELSE JNum(IF signed /\ Head(s) = "-" THEN 0 - magnitude ELSE magnitude)

\* a mutant: only the leading dash marks a negative amount
normalizeAmountDashOnly(raw) ==
    LET str == RemoveAll(raw, {",", " "})
        isNegative == str # <<>> /\ Head(str) = "-"
        bare == RemoveAll(str, {"(", ")"})
        amount == parseFloat(IF bare # <<>> /\ Head(bare) = "-" THEN Tail(bare) ELSE bare)
    IN  IF raw = <<>> THEN JNull
        ELSE IF amount = NaN THEN JNull
        ELSE IF isNegative THEN JNum(0 - amount.n) ELSE amount

normalizeAmount(raw) ==
    LET str == RemoveAll(raw, {",", " "})
        isNegative == \/ (str # <<>> /\ Head(str) = "(" /\ str[Len(str)] = ")")
                      \/ (str # <<>> /\ Head(str) = "-")
        bare == RemoveAll(str, {"(", ")"})
        amount == parseFloat(IF bare # <<>> /\ Head(bare) = "-" THEN Tail(bare) ELSE bare)
    IN  IF raw = <<>> THEN JNull
        ELSE IF amount = NaN THEN JNull
        ELSE IF isNegative THEN JNum(0 - amount.n) ELSE amount

InitAmount ==
    /\ amtText \in SeqsUpTo(AmountChars, MaxAmountChars)
    /\ amtPlain = JUndefined
    /\ amtParen = JUndefined
    /\ IdlePipeline
    /\ IdleCalc
    /\ IdleClean
    /\ IdleDate
    /\ IdleUpload
    /\ IdleSplit
    /\ IdleHandler

\* normalizeAmount(s) and normalizeAmount('(' + s + ')')
ApplyNormalizeAmount ==
    /\ amtPlain = JUndefined
    /\ amtPlain' = normalizeAmount(amtText)
    /\ amtParen' = normalizeAmount(<<"(">> \o amtText \o <<")">>)
    /\ UNCHANGED <<amtText, pipeVars, calcVars, cleanVars, dateVars, uploadVars, splitVars, handlerVars>>

NextAmount == ApplyNormalizeAmount

SpecAmount == InitAmount /\ [][NextAmount]_vars

(***************************************************************************)
(* Properties of normalizeAmount.                                          *)
(***************************************************************************)
\* normalizeAmount accepted the string
AmountAccepted == amtPlain # JUndefined /\ amtPlain # JNull

\* the string, without commas and blanks, carries a negative indicator itself
SelfNegative ==
    LET str == RemoveAll(amtText, {",", " "})
    IN  str # <<>> /\ (Head(str) = "-" \/ (Head(str) = "(" /\ str[Len(str)] = ")"))

\* C11 as stated: for every string s that normalizeAmount accepts,
\* normalizeAmount('(' + s + ')') = -normalizeAmount(s).
C11_AsStated == AmountAccepted => amtParen = JNum(0 - amtPlain.n)

\* C11 amended: for every string s that normalizeAmount accepts and that
\* carries no negative indicator itself (stripped of currency symbols, commas
\* and blanks it neither starts with '-' nor is enclosed in parentheses),
\* normalizeAmount('(' + s + ')') = -normalizeAmount(s).
C11_ParenNegates ==
    (AmountAccepted /\ ~SelfNegative) => amtParen = JNum(0 - amtPlain.n)

\* 7.7 and (7.7)
C11_Witness ==
    /\ amtText = <<"7", ".", "7">>
    /\ amtPlain = JNum(77 * Pow10(MaxAmountChars - 2))
    /\ amtParen = JNum(0 - 77 * Pow10(MaxAmountChars - 2))

(***************************************************************************)
(* src/src/utils/normalize.js: normalizeDate.  A date token is a sequence  *)
(* of characters, with the month name "Mar" as one character.  parseDate   *)
(* is date-fns' parse: each template token consumes what its pattern       *)
(* matches, a literal has to be met as written, the whole string has to be *)
(* consumed and the fields have to name a day of the calendar.             *)
(***************************************************************************)
InvalidDate == [t |-> "Invalid Date"]

Ymd(y, m, d) == [t |-> "date", y |-> y, m |-> m, d |-> d]

DATE_FORMATS_MonthFirst ==
    << <<"MM", "/", "dd", "/", "yyyy">>, <<"dd", "/", "MM", "/", "yyyy">>,
       <<"yyyy", "-", "MM", "-", "dd">>,
       <<"dd", "-", "MM", "-", "yyyy">>, <<"MM", "-", "dd", "-", "yyyy">>,
       <<"d", "/", "M", "/", "yyyy">>, <<"d", "-", "M", "-", "yyyy">>,
       <<"dd", " ", "MMM", " ", "yyyy">>, <<"dd", "-", "MMM", "-", "yyyy">>,
       <<"MMM", " ", "dd", ",", " ", "yyyy">>, <<"MMM", " ", "d", ",", " ", "yyyy">>,
       <<"dd", ".", "MM", ".", "yyyy">>, <<"yyyy", "/", "MM", "/", "dd">> >>

DATE_FORMATS ==
    << <<"dd", "/", "MM", "/", "yyyy">>, <<"MM", "/", "dd", "/", "yyyy">>,
       <<"yyyy", "-", "MM", "-", "dd">>,
       <<"dd", "-", "MM", "-", "yyyy">>, <<"MM", "-", "dd", "-", "yyyy">>,
       <<"d", "/", "M", "/", "yyyy">>, <<"d", "-", "M", "-", "yyyy">>,
       <<"dd", " ", "MMM", " ", "yyyy">>, <<"dd", "-", "MMM", "-", "yyyy">>,
       <<"MMM", " ", "dd", ",", " ", "yyyy">>, <<"MMM", " ", "d", ",", " ", "yyyy">>,
       <<"dd", ".", "MM", ".", "yyyy">>, <<"yyyy", "/", "MM", "/", "dd">> >>

\* the template tokens that stand for a field
FieldTokens == {"dd", "MM", "yyyy", "d", "M", "MMM"}

IsLeapYear(y) == y % 400 = 0 \/ (y % 4 = 0 /\ y % 100 # 0)

DaysInMonth(y, m) ==
    IF m = 2 THEN (IF IsLeapYear(y) THEN 29 ELSE 28)
    ELSE IF m \in {4, 6, 9, 11} THEN 30 ELSE 31

\* isValid(parsed): the validate step of each field's parser
ValidYmd(y, m, d) == y > 0 /\ m \in 1..12 /\ d \in 1..DaysInMonth(y, m)

\* how many characters the pattern of a field token matches at the start of s
MatchLength(s, token) ==
    LET run == RunLength(s, AllDigits)
        two == Len(s) >= 2 /\ s[2] \in AllDigits
    IN  CASE token \in {"dd", "MM"} -> Min(run, 2)
          [] token = "yyyy" -> Min(run, 4)
          \* /^(3[0-1]|[0-2]?\d)/
          [] token = "d" ->
                IF run = 0 THEN 0
                ELSE IF s[1] = "3" /\ Len(s) >= 2 /\ s[2] \in {"0", "1"} THEN 2
                ELSE IF s[1] \in {"0", "1", "2"} /\ two THEN 2
                ELSE 1
          \* /^(1[0-2]|0?\d)/
          [] token = "M" ->
                IF run = 0 THEN 0
                ELSE IF s[1] = "1" /\ Len(s) >= 2 /\ s[2] \in {"0", "1", "2"} THEN 2
                ELSE IF s[1] = "0" /\ two THEN 2
                ELSE 1
          [] token = "MMM" -> IF s # <<>> /\ s[1] = "Mar" THEN 1 ELSE 0

\* the value of the matched characters
FieldValue(s, token) ==
    IF token = "MMM" THEN 3 ELSE IntOf(SubSeq(s, 1, MatchLength(s, token)))

\* the field of the date a token sets
FieldOf(token) ==
    CASE token \in {"dd", "d"} -> "d"
      [] token \in {"MM", "M", "MMM"} -> "m"
      [] token = "yyyy" -> "y"

\* the tokens of a template consumed one after the other
RECURSIVE ParseTokens(_, _, _)
ParseTokens(s, fmt, acc) ==
    IF fmt = <<>> THEN (IF s = <<>> THEN acc ELSE InvalidDate)
    ELSE IF Head(fmt) \in FieldTokens
    THEN IF MatchLength(s, Head(fmt)) = 0 THEN InvalidDate
         ELSE ParseTokens(SubSeq(s, MatchLength(s, Head(fmt)) + 1, Len(s)), Tail(fmt),
                          [acc EXCEPT ![FieldOf(Head(fmt))] = FieldValue(s, Head(fmt))])
    ELSE IF s # <<>> /\ Head(s) = Head(fmt) THEN ParseTokens(Tail(s), Tail(fmt), acc)
    ELSE InvalidDate

\* parseDate(cleaned, fmt, new Date())
parseDate(s, fmt) ==
    LET parsed == ParseTokens(s, fmt, Ymd(0, 0, 0))
    IN  IF parsed # InvalidDate /\ ValidYmd(parsed.y, parsed.m, parsed.d)
        THEN parsed ELSE InvalidDate

\* n written with the given number of digits
RECURSIVE Pad(_, _)
Pad(n, width) ==
    IF width = 0 THEN <<>> ELSE Pad(n \div 10, width - 1) \o <<DigitChars[(n % 10) + 1]>>

\* format(date, 'yyyy-MM-dd')
format(date) == JStr(Pad(date.y, 4) \o <<"-">> \o Pad(date.m, 2) \o <<"-">> \o Pad(date.d, 2))

\* a day past the end of its month, counted on into the next month
RollOver(date) ==
    IF date.d > DaysInMonth(date.y, date.m)
    THEN Ymd(date.y, date.m + 1, date.d - DaysInMonth(date.y, date.m))
    ELSE date

\* new Date(cleaned): what the engine makes of a string is left to the engine;
\* it is Invalid Date or the month-first or year-first reading of the string,
\* with a day up to 31 counted on into the next month
NativeFormats ==
    { <<"MM", "/", "dd", "/", "yyyy">>, <<"MM", "-", "dd", "-", "yyyy">>,
      <<"yyyy", "-", "MM", "-", "dd">>, <<"yyyy", "/", "MM", "/", "dd">> }

nativeDate(s) ==
    LET readings == {ParseTokens(s, fmt, Ymd(0, 0, 0)) : fmt \in NativeFormats}
        legal == {r \in readings \ {InvalidDate} :
                     r.y > 0 /\ r.m \in 1..12 /\ r.d \in 1..31}
    IN  {InvalidDate} \cup {RollOver(r) : r \in legal}

\* the first template, from the i-th on, that parses the string
RECURSIVE FirstParsed(_, _, _)
FirstParsed(s, formats, i) ==
    IF i > Len(formats) THEN InvalidDate
    ELSE IF parseDate(s, formats[i]) # InvalidDate THEN parseDate(s, formats[i])
    ELSE FirstParsed(s, formats, i + 1)

\* normalizeDate(raw), given what new Date(cleaned) returns
normalizeDate(raw, native) ==
    IF raw = JNull \/ raw.s = <<>> THEN JNull
    ELSE IF FirstParsed(raw.s, DATE_FORMATS, 1) # InvalidDate
         THEN format(FirstParsed(raw.s, DATE_FORMATS, 1))
    ELSE IF native # InvalidDate /\ native.y > 1990 THEN format(native)
    ELSE JNull

\* the date tokens: a/b/y with the separators of the templates, textual months,
\* strings that are no date, and no string at all
DayMonthFields ==
    { <<"1">>, <<"0", "1">>, <<"0", "2">>, <<"1", "2">>, <<"1", "3">>,
      <<"2", "9">>, <<"3", "0">>, <<"3", "1">>, <<"3", "2">> }

YearFields == { <<"2", "0", "2", "4">>, <<"2", "0", "2", "3">>, <<"1", "9", "8", "5">>, <<"2", "4">> }

Separators == {"/", "-", "."}

DateTokens ==
    { JStr(a \o <<sep>> \o b \o <<sep>> \o y) :
          <<a, b, y, sep>> \in DayMonthFields \X DayMonthFields \X YearFields \X Separators }
    \cup { JStr(y \o <<sep>> \o a \o <<sep>> \o b) :
          <<a, b, y, sep>> \in DayMonthFields \X DayMonthFields \X YearFields \X {"-", "/"} }
    \cup { JStr(<<"1", "5", " ", "Mar", " ", "2", "0", "2", "4">>),
           JStr(<<"1", "5", "-", "Mar", "-", "2", "0", "2", "4">>),
           JStr(<<"Mar", " ", "1", "5", ",", " ", "2", "0", "2", "4">>),
           JStr(<<"Mar", " ", "5", ",", " ", "2", "0", "2", "4">>),
           JStr(<<"3", "1", " ", "Mar">>), JStr(<<"a">>), JStr(<<>>), JNull }

InitDate ==
    /\ dateText \in DateTokens
    /\ dateNative = JUndefined
    /\ dateResult = JUndefined
    /\ IdlePipeline
    /\ IdleCalc
    /\ IdleClean
    /\ IdleAmount
    /\ IdleUpload
    /\ IdleSplit
    /\ IdleHandler

ApplyNormalizeDate ==
    /\ dateResult = JUndefined
    /\ \E native \in (IF dateText = JNull THEN {InvalidDate} ELSE nativeDate(dateText.s)) :
          /\ dateNative' = native
          /\ dateResult' = normalizeDate(dateText, native)
    /\ UNCHANGED <<dateText, pipeVars, calcVars, cleanVars, amountVars, uploadVars, splitVars, handlerVars>>

NextDate == ApplyNormalizeDate

SpecDate == InitDate /\ [][NextDate]_vars

(***************************************************************************)
(* Properties of normalizeDate.                                            *)
(***************************************************************************)
\* the four-digit years of the date tokens
FourDigitYears == {y \in YearFields : Len(y) = 4}

\* some template parses the string
SomeTemplateParses ==
    /\ dateText # JNull
    /\ \E i \in 1..Len(DATE_FORMATS) : parseDate(dateText.s, DATE_FORMATS[i]) # InvalidDate

\* C12: for an input a/b/yyyy of which both readings are dates, normalizeDate
\* returns the day-first reading yyyy-bb-aa; it returns the month-first reading
\* only when the day-first reading is no date; and it returns null when no
\* template parses the input and the native fallback yields no valid date.
C12_TemplatePriority ==
    dateResult # JUndefined =>
        /\ \A a \in DayMonthFields, b \in DayMonthFields, y \in FourDigitYears :
              dateText = JStr(a \o <<"/">> \o b \o <<"/">> \o y) =>
                 LET dayFirst == Ymd(IntOf(y), IntOf(b), IntOf(a))
                     monthFirst == Ymd(IntOf(y), IntOf(a), IntOf(b))
                     isDate(r) == ValidYmd(r.y, r.m, r.d)
                 IN  /\ (isDate(dayFirst) /\ isDate(monthFirst)) => dateResult = format(dayFirst)
                     /\ (dateResult = format(monthFirst) /\ monthFirst # dayFirst)
                            => ~isDate(dayFirst)
        /\ (~SomeTemplateParses /\ (dateNative = InvalidDate \/ dateNative.y <= 1990))
              => dateResult = JNull

\* 01/02/2024 is the first of February
C12_Witness ==
    /\ dateText = JStr(<<"0", "1", "/", "0", "2", "/", "2", "0", "2", "4">>)
    /\ dateResult = JStr(<<"2", "0", "2", "4", "-", "0", "2", "-", "0", "1">>)

\* 02/13/2024 has no day-first reading and is the thirteenth of February
C12_WitnessMonthFirst ==
    /\ dateText = JStr(<<"0", "2", "/", "1", "3", "/", "2", "0", "2", "4">>)
    /\ dateResult = JStr(<<"2", "0", "2", "4", "-", "0", "2", "-", "1", "3">>)

\* 30/02/2024 is no date under any template; without a fallback date it is null
C12_WitnessNull ==
    /\ dateText = JStr(<<"3", "0", "/", "0", "2", "/", "2", "0", "2", "4">>)
    /\ dateNative = InvalidDate
    /\ dateResult = JNull

(***************************************************************************)
(* Properties of extractTaxStatement.                                      *)
(***************************************************************************)
\* no line of the text matches a section-start pattern
NoDeductorSection ==
    \A i \in 1..Len(getLines(pageTexts)) : ~LineHas(getLines(pageTexts)[i], "start")

\* nothing was extracted for the deductor
EmptyDeductor(deductor) ==
    /\ \A f \in DeductorFields : deductor[f] = JNull
    /\ deductor.transactions = <<>>

\* the extractor ran on a tax document without a deductor section and
\* extracted nothing for a deductor
NothingDeducted ==
    /\ Extracted
    /\ classification.documentType = "tax_statement"
    /\ NoDeductorSection
    /\ \A i \in 1..Len(extractionResult.output.deductors) :
          EmptyDeductor(extractionResult.output.deductors[i])

\* C13: when the text of a tax document contains no deductor section (no line
\* matches a section-start pattern and nothing is extracted for a deductor),
\* the result of extractTaxStatement carries a NO_DEDUCTORS warning.
C13_AsStated ==
    NothingDeducted =>
        \E i \in 1..Len(extractionResult.warnings) :
            extractionResult.warnings[i] = "NO_DEDUCTORS"

(***************************************************************************)
(* Properties of the job row and of the result route.                      *)
(***************************************************************************)
\* C14: the status of a job row moves only along queued -> running ->
\* success or failed: it never returns to an earlier status, and success and
\* failed are terminal, also when the queue re-runs a failed attempt.
C14_AsStated ==
    [][\/ jobStatus' = jobStatus
       \/ <<jobStatus, jobStatus'>> \in {<<"queued", "running">>,
                                          <<"running", "success">>,
                                          <<"running", "failed">>}]_vars

\* C15: the result route answers a job whose status is success with the full
\* JSON of its result row (which exists by then: 'Result not found' is never
\* answered), and an existing job of any other status with 202 and the status.
C15_ResultRoute ==
    /\ jobStatus = "success" =>
          /\ results # <<>>
          /\ getJobResult(jobStatus, jobError, results) = [code |-> 200, body |-> finalResult]
    /\ jobStatus \in {"queued", "running", "failed"} =>
          /\ getJobResult(jobStatus, jobError, results).code = 202
          /\ getJobResult(jobStatus, jobError, results).body.status = jobStatus
    /\ response # JUndefined =>
          /\ response.code \in {200, 202}
          /\ response.code = 200 => jobStatus = "success" /\ response.body = finalResult

\* a finished job answered with its result
C15_Witness ==
    /\ jobStatus = "success"
    /\ finalResult.document_type = JStr("bank_statement")
    /\ response = [code |-> 200, body |-> finalResult]

(***************************************************************************)
(* src/src/routes/documents.js: POST /api/v1/documents/upload, called for  *)
(* one file after the other (upload-batch does the same for each of its    *)
(* files).  A uuid is the number of the row it names.                      *)
(***************************************************************************)
\* uploads
MaxUploads == 3

\* the files a client may send
UploadFiles ==
    [originalname : {"a.pdf", "b.pdf"}, mimetype : {"application/pdf"}, content : {"A", "B", "C"}]
    \cup [originalname : {"a.txt"}, mimetype : {"text/plain"}, content : {"A"}]

\* path.extname(file.originalname).toLowerCase()
extname(name) == IF name \in {"a.pdf", "b.pdf"} THEN ".pdf" ELSE ".txt"

\* multer's fileFilter
fileFilter(file) == file.mimetype = "application/pdf" \/ extname(file.originalname) = ".pdf"

\* checksumFile: the SHA-256 digest, the same for the same bytes
checksumFile(file) == <<"sha256", file.content>>

\* src/src/db/models.js
insertDocument(rows, doc) == Append(rows, doc @@ [status |-> "pending"])

insertJob(rows, row) == Append(rows, row @@ [status |-> "queued"])

InitUpload ==
    /\ documents = <<>>
    /\ jobRows = <<>>
    /\ queued = <<>>
    /\ IdlePipeline
    /\ IdleCalc
    /\ IdleClean
    /\ IdleAmount
    /\ IdleDate
    /\ IdleSplit
    /\ IdleHandler

Upload ==
    /\ Len(documents) < MaxUploads
    /\ \E file \in UploadFiles :
          /\ fileFilter(file)
          /\ LET documentId == Len(documents) + 1
                 jobId == Len(jobRows) + 1
             IN  /\ documents' = insertDocument(documents,
                                    [id |-> documentId,
                                     original_name |-> file.originalname,
                                     checksum |-> checksumFile(file)])
                 /\ queued' = Append(queued,
                                    [jobId |-> jobId, documentId |-> documentId,
                                     originalName |-> file.originalname])
                 /\ jobRows' = insertJob(jobRows,
                                    [id |-> jobId, document_id |-> documentId])
    /\ UNCHANGED <<pipeVars, calcVars, cleanVars, amountVars, dateVars,
                   splitVars, handlerVars>>

NextUpload == Upload

SpecUpload == InitUpload /\ [][NextUpload]_vars

\* C16: uploading a file whose SHA-256 checksum equals that of an already
\* stored document creates no second document row and no second job: no two
\* document rows carry the same checksum, and no two jobs belong to documents
\* of the same checksum.
C16_AsStated ==
    /\ \A i, j \in 1..Len(documents) :
          documents[i].checksum = documents[j].checksum => i = j
    /\ \A i, j \in 1..Len(jobRows) :
          documents[jobRows[i].document_id].checksum
             = documents[jobRows[j].document_id].checksum => i = j

(***************************************************************************)
(* Properties of the file name bonus.                                      *)
(***************************************************************************)
\* C17 as stated: the file name adds its +10 to at most one of the two totals.
C17_AsStated ==
    Classified => ~(bankBonus(job.originalName) = 10 /\ taxBonus(job.originalName) = 10)

\* C17 amended: each total gets a bonus of 0 or 10 from the file name, decided
\* by its own pattern alone: +10 on the bank total exactly when the name
\* contains bank, statement or passbook, +10 on the tax total exactly when it
\* contains 26as, tds, tax or form16; a name with tokens of both adds 10 to both.
C17_FilenameBonus ==
    (Classified /\ classification.documentType # "unknown") =>
        LET bonusB == classification.bankScore - scoreText(pageTexts, "kwB", BANK_KEYWORDS)
            bonusT == classification.taxScore - scoreText(pageTexts, "kwT", TAX_KEYWORDS)
            names == Filenames[job.originalName]
        IN  /\ bonusB = IF names \cap {"bank", "statement", "passbook"} # {} THEN 10 ELSE 0
            /\ bonusT = IF names \cap {"26as", "tds", "tax", "form16"} # {} THEN 10 ELSE 0

\* bank_tax.pdf with an empty text: both totals are 10
C17_Witness ==
    /\ Classified
    /\ job.originalName = "both"
    /\ pageTexts = <<>>
    /\ classification.documentType = "bank_statement"
    /\ classification.bankScore = 10
    /\ classification.taxScore = 10

(***************************************************************************)
(* processJob on bank statements: the texts are made of the lines of a     *)
(* transaction table, the file is named bank_statement.pdf.                *)
(***************************************************************************)
\* lines of a bank statement
MaxBankLines == 3

BankItems == {"head", "row", "row3", "dr", "plain", "one", "bad", "rule", "total", "PB"}

BankJobs ==
    { [text |-> t, originalName |-> "bank", pdf |-> k] :
        t \in SeqsUpTo(BankItems, MaxBankLines), k \in PdfKinds }

InitBankDoc ==
    /\ job \in BankJobs
    /\ pc = "queued"
    /\ jobStatus = "queued"
    /\ docStatus = "pending"
    /\ jobError = "none"
    /\ warnings = <<>>
    /\ isScanned = FALSE
    /\ pageTexts = <<>>
    /\ classification = JUndefined
    /\ extractionResult = JUndefined
    /\ finalResult = JUndefined
    /\ schemaErrors = <<>>
    /\ results = <<>>
    /\ attemptsMade = 0
    /\ response = JUndefined
    /\ IdleCalc
    /\ IdleClean
    /\ IdleAmount
    /\ IdleDate
    /\ IdleUpload
    /\ IdleSplit
    /\ IdleHandler

SpecBankDoc == InitBankDoc /\ [][Next]_vars

(***************************************************************************)
(* Properties of the bank statement extractor and of its schema.           *)
(***************************************************************************)
\* a bank result has been assembled and validated
BankAssembled == Assembled /\ classification.documentType = "bank_statement"

\* the bank extractor ran and found the header row of the table
HeaderDriven ==
    /\ Extracted
    /\ classification.documentType = "bank_statement"
    /\ headerLineIdx(getLines(pageTexts)) # 0

\* some transaction of the result has a null date
SomeNullDate ==
    \E i \in 1..Len(finalResult.transactions) : finalResult.transactions[i].date = JNull

AssignedByRule(line, zeroIsNull) ==
    LET a == LineAmounts(line)
        positional(i) == IF zeroIsNull /\ a[i] = 0 THEN JNull ELSE JNum(a[i])
    IN  IF Len(a) >= 3
        THEN [debit |-> positional(1), credit |-> positional(2), balance |-> positional(3)]
        ELSE IF Len(a) = 2
        THEN IF LineHas(line, "debitKw")
             THEN [debit |-> JNum(a[1]), credit |-> JNull, balance |-> JNum(a[2])]
             ELSE IF LineHas(line, "creditKw")
             THEN [debit |-> JNull, credit |-> JNum(a[1]), balance |-> JNum(a[2])]
             ELSE [debit |-> JNum(a[1]), credit |-> JNull, balance |-> JNum(a[2])]
        ELSE IF Len(a) = 1
        THEN [debit |-> JNull, credit |-> JNull, balance |-> JNum(a[1])]
        ELSE [debit |-> JNull, credit |-> JNull, balance |-> JNull]

\* the amount fields of a row
AmountFields(txn) == [debit |-> txn.debit, credit |-> txn.credit, balance |-> txn.balance]

\* the transactions the extractor returned
Transactions == extractionResult.output.transactions

\* C19 as stated: with 3 or more tokens debit = a1, credit = a2, balance = a3;
\* with 2 tokens (debit, balance) on a debit keyword, else (credit, balance) on
\* a credit keyword, else (debit, balance); with 1 token balance = a1; every
\* other field is null and every assigned field holds the token's value.
C19_AsStated ==
    HeaderDriven =>
        \A i \in 1..Len(Transactions) :
            AmountFields(Transactions[i]) = AssignedByRule(Transactions[i]["_raw"], FALSE)

\* C19 amended: the same rule, except that with 3 or more tokens a token whose
\* value is 0 leaves its field null instead of 0.
C19_AmountAssignment ==
    HeaderDriven =>
        \A i \in 1..Len(Transactions) :
            AmountFields(Transactions[i]) = AssignedByRule(Transactions[i]["_raw"], TRUE)

\* 2,000.00 0.00 78,430.50: a debit, no credit, a balance
C19_Witness ==
    /\ HeaderDriven
    /\ pageTexts = <<"head", "row3", "dr">>
    /\ AmountFields(Transactions[1])
         = [debit |-> JNum(200000), credit |-> JNull, balance |-> JNum(7843050)]
    /\ AmountFields(Transactions[2])
         = [debit |-> JNum(75000), credit |-> JNull, balance |-> JNum(7968050)]

\* the index of the first summary line after line h, or one past the last line
FirstSummaryAfter(lines, h) ==
    IF \E k \in (h + 1)..Len(lines) : LineHas(lines[k], "summary")
    THEN CHOOSE k \in (h + 1)..Len(lines) :
            /\ LineHas(lines[k], "summary")
            /\ \A m \in (h + 1)..(k - 1) : ~LineHas(lines[m], "summary")
    ELSE Len(lines) + 1

\* a line that is no separator and holds a date token that is a date
RowLine(line) ==
    /\ ~LineIsSeparator(line)
    /\ LineDates(line) # <<>>
    /\ LineDates(line)[1] # "null"

\* the row lines among the lines lo..hi, in line order
RECURSIVE RowLinesBetween(_, _, _)
RowLinesBetween(lines, lo, hi) ==
    IF lo > hi THEN <<>>
    ELSE (IF RowLine(lines[lo]) THEN <<lines[lo]>> ELSE <<>>)
         \o RowLinesBetween(lines, lo + 1, hi)

\* C20: when a table header row is found, the transactions come, in line
\* order, from the lines strictly after the header row and strictly before the
\* first summary line after it: one from each line there that is no separator
\* and holds a date, none from a separator line or a line without a date
\* token, and none from the summary line or a line after it.
C20_TableScan ==
    HeaderDriven =>
        LET lines == getLines(pageTexts)
            h == headerLineIdx(lines)
        IN  [i \in 1..Len(Transactions) |-> Transactions[i]["_raw"]]
               = RowLinesBetween(lines, h + 1, FirstSummaryAfter(lines, h) - 1)

\* a row after the summary line yields nothing
C20_Witness ==
    /\ HeaderDriven
    /\ pageTexts = <<"head", "total", "row">>
    /\ Transactions = <<>>

\* a separator between the header and a row
C20_WitnessSeparator ==
    /\ HeaderDriven
    /\ pageTexts = <<"head", "rule", "row">>
    /\ Len(Transactions) = 1


(***************************************************************************)
(* Properties of the heuristic scanner of the bank extractor.              *)
(***************************************************************************)
\* the bank extractor ran
BankExtracted == Extracted /\ classification.documentType = "bank_statement"

\* no line matches a table header pattern of any bank
NoHeaderLine(lines) ==
    \A i \in 1..Len(lines) : \A k \in 1..Len(lines[i]) :
        LineInfo[lines[i][k]].tableHeader = {}

\* the lines that hold a date token and a two-decimal monetary token, in order
RECURSIVE DatedAmountLines(_)
DatedAmountLines(lines) ==
    IF lines = <<>> THEN <<>>
    ELSE (IF LineDates(Head(lines)) # <<>> /\ LineAmounts(Head(lines)) # <<>>
          THEN <<Head(lines)>> ELSE <<>>)
         \o DatedAmountLines(Tail(lines))

\* the amounts of a line by position: first debit, second credit, third
\* balance; zeroIsNull: a token of value 0 leaves its field null
PositionalAmounts(line, zeroIsNull) ==
    LET a == LineAmounts(line)
        at(i) == IF i > Len(a) THEN JNull
                 ELSE IF zeroIsNull /\ a[i] = 0 THEN JNull ELSE JNum(a[i])
    IN  [debit |-> at(1), credit |-> at(2), balance |-> at(3)]

\* the warnings and the rows of the extractor, by the presence of a header row
HeuristicRule(zeroIsNull) ==
    BankExtracted =>
        LET lines == getLines(pageTexts)
            emitted == extractionResult.warnings
            taken == DatedAmountLines(lines)
            missing == IF NoHeaderLine(lines) THEN 1 ELSE 0
        IN  /\ CountEq(emitted, "NO_TABLE_HEADER") = missing
            /\ CountEq(emitted, "HEURISTIC_PARSING") = missing
            /\ NoHeaderLine(lines) =>
                  /\ Len(Transactions) = Len(taken)
                  /\ \A i \in 1..Len(taken) :
                        AmountFields(Transactions[i])
                            = PositionalAmounts(taken[i], zeroIsNull)

\* C21 as stated: NO_TABLE_HEADER and HEURISTIC_PARSING are emitted together,
\* each exactly once, exactly when no line matches a table header pattern;
\* then every line with a date token and a two-decimal monetary token yields
\* exactly one transaction, debit, credit and balance holding its first,
\* second and third amount, and no other line yields one; with a header row
\* neither warning is emitted.
C21_AsStated == HeuristicRule(FALSE)

\* C21 amended: the same, except that a monetary token whose value is 0 leaves
\* its field null instead of 0.
C21_HeuristicScan == HeuristicRule(TRUE)

\* no header row: the three dated lines give three rows, the second amount of
\* "2,000.00 0.00 78,430.50" gives no credit
C21_Witness ==
    /\ BankExtracted
    /\ pageTexts = <<"row3", "rule", "one">>
    /\ CountEq(extractionResult.warnings, "NO_TABLE_HEADER") = 1
    /\ CountEq(extractionResult.warnings, "HEURISTIC_PARSING") = 1
    /\ Len(Transactions) = 2
    /\ AmountFields(Transactions[1])
         = [debit |-> JNum(200000), credit |-> JNull, balance |-> JNum(7843050)]
    /\ AmountFields(Transactions[2])
         = [debit |-> JNum(7793050), credit |-> JNull, balance |-> JNull]


(***************************************************************************)
(* splitByDeductors applied to an arbitrary sequence of lines.             *)
(***************************************************************************)
\* lines of the sequence splitByDeductors is applied to
MaxSplitLines == 4

\* a line of the header of the form, a section start, a TDS row
SplitItems == {"form", "ded", "tds"}

InitSplit ==
    /\ splitLines \in SeqsUpTo({<<item>> : item \in SplitItems}, MaxSplitLines)
    /\ splitBlocks = <<>>
    /\ IdlePipeline
    /\ IdleCalc
    /\ IdleClean
    /\ IdleAmount
    /\ IdleDate
    /\ IdleUpload
    /\ IdleHandler

ApplySplitByDeductors ==
    /\ splitBlocks = <<>>
    /\ splitBlocks' = <<splitByDeductors(splitLines)>>
    /\ UNCHANGED <<splitLines, pipeVars, calcVars, cleanVars, amountVars, dateVars,
                   uploadVars, handlerVars>>

NextSplit == ApplySplitByDeductors

SpecSplit == InitSplit /\ [][NextSplit]_vars

\* the blocks splitByDeductors returned
Blocks == splitBlocks[1]

\* the indices of the lines that match a section-start pattern
StartLines == {i \in 1..Len(splitLines) : LineHas(splitLines[i], "start")}

\* the index of the b-th start line
NthStart(b) == CHOOSE i \in StartLines : Cardinality({j \in StartLines : j < i}) = b - 1

\* the index of the last line before the start line after the b-th, or of the
\* last line
BlockEnd(b) ==
    IF b < Cardinality(StartLines) THEN NthStart(b + 1) - 1 ELSE Len(splitLines)

\* C22: splitByDeductors starts a block at every line that matches a
\* section-start pattern and appends the following lines up to the next start
\* line or the end: with a start line there are as many blocks as start lines
\* and each block is its start line followed by the lines up to the next one;
\* without any start line the result is one block holding all the lines.
C22_Blocks ==
    splitBlocks # <<>> =>
        IF StartLines = {}
        THEN Blocks = <<splitLines>>
        ELSE /\ Len(Blocks) = Cardinality(StartLines)
             /\ \A b \in 1..Len(Blocks) :
                   /\ Blocks[b] = SubSeq(splitLines, NthStart(b), BlockEnd(b))
                   /\ LineHas(Blocks[b][1], "start")

\* two sections, the first with a row
C22_Witness ==
    /\ splitBlocks # <<>>
    /\ splitLines = << <<"form">>, <<"ded">>, <<"tds">>, <<"ded">> >>
    /\ Blocks = << << <<"ded">>, <<"tds">> >>, << <<"ded">> >> >>

\* no section: one block with all the lines
C22_WitnessNoStart ==
    /\ splitBlocks # <<>>
    /\ splitLines = << <<"form">>, <<"tds">> >>
    /\ Blocks = << splitLines >>

\* C28 as stated: the blocks partition the lines: concatenated in order they
\* give back exactly the input lines.
C28_AsStated ==
    splitBlocks # <<>> => Flatten(Blocks) = splitLines

\* the index of the first start line
FirstStart == CHOOSE i \in StartLines : \A j \in StartLines : i <= j

\* C28 amended: concatenated in order, the blocks give back the lines from the
\* first start line on, and all the lines when there is no start line: the
\* lines before the first start line are in no block, every other line is in
\* exactly one.
C28_Partition ==
    splitBlocks # <<>> =>
        Flatten(Blocks) =
            IF StartLines = {} THEN splitLines
            ELSE SubSeq(splitLines, FirstStart, Len(splitLines))

\* the line before the first section is in no block
C28_Witness ==
    /\ splitBlocks # <<>>
    /\ splitLines = << <<"form">>, <<"ded">>, <<"tds">> >>
    /\ Blocks = << << <<"ded">>, <<"tds">> >> >>
    /\ Flatten(Blocks) # splitLines


(***************************************************************************)
(* Properties of the tax statement extractor.                              *)
(***************************************************************************)
\* the tax extractor ran
TaxExtracted == Extracted /\ classification.documentType = "tax_statement"

\* the deductors the extractor returned
Deductors == extractionResult.output.deductors

C27_WitnessNoSection ==
    /\ TaxExtracted
    /\ pageTexts = <<"form", "tds">>
    /\ NoDeductorSection
    /\ Len(Deductors) = 1


(***************************************************************************)
(* processJob run on documents made of the lines of a deductor section:    *)
(* the section start, the header of the sub-table, rows with and without   *)
(* section code, a separator, the total.                                   *)
(***************************************************************************)
\* lines and page breaks of the text of a tax document
MaxTaxLines == 3

TaxItems == {"ded", "thead", "tds", "dated", "bad", "ttotal", "rule", "PB"}

TaxJobs ==
    { [text |-> t, originalName |-> "tax", pdf |-> k] :
        t \in SeqsUpTo(TaxItems, MaxTaxLines), k \in PdfKinds }

InitTaxDoc ==
    /\ job \in TaxJobs
    /\ pc = "queued"
    /\ jobStatus = "queued"
    /\ docStatus = "pending"
    /\ jobError = "none"
    /\ warnings = <<>>
    /\ isScanned = FALSE
    /\ pageTexts = <<>>
    /\ classification = JUndefined
    /\ extractionResult = JUndefined
    /\ finalResult = JUndefined
    /\ schemaErrors = <<>>
    /\ results = <<>>
    /\ attemptsMade = 0
    /\ response = JUndefined
    /\ IdleCalc
    /\ IdleClean
    /\ IdleAmount
    /\ IdleDate
    /\ IdleUpload
    /\ IdleSplit
    /\ IdleHandler

SpecTaxDoc == InitTaxDoc /\ [][Next]_vars

\* the index of the first line of the block that is a sub-table header, 0
\* when it has none
SubTableHeader(block) ==
    IF \E i \in 1..Len(block) : LineHas(block[i], "tdsHeader")
    THEN CHOOSE i \in 1..Len(block) :
            /\ LineHas(block[i], "tdsHeader")
            /\ \A j \in 1..(i - 1) : ~LineHas(block[j], "tdsHeader")
    ELSE 0

\* the index of the first line after line h that contains 'total', or one
\* past the last line
FirstTotalAfter(block, h) ==
    IF \E k \in (h + 1)..Len(block) : LineHas(block[k], "total")
    THEN CHOOSE k \in (h + 1)..Len(block) :
            /\ LineHas(block[k], "total")
            /\ \A m \in (h + 1)..(k - 1) : ~LineHas(block[m], "total")
    ELSE Len(block) + 1

\* a line that yields a TDS transaction: it contains a section code, or, with
\* no sub-table header in the block, a date token that is a date
TDSLine(line, hasHeader) ==
    \/ LineSections(line) # <<>>
    \/ /\ ~hasHeader
       /\ LineDates(line) # <<>>
       /\ LineDates(line)[1] # "null"

\* the lines among lo..hi of the block that yield a transaction, in order
RECURSIVE TDSLinesBetween(_, _, _, _)
TDSLinesBetween(block, lo, hi, hasHeader) ==
    IF lo > hi THEN <<>>
    ELSE (IF TDSLine(block[lo], hasHeader) THEN <<block[lo]>> ELSE <<>>)
         \o TDSLinesBetween(block, lo + 1, hi, hasHeader)

\* the lines of the block that the claim lets yield a transaction
TDSLinesOf(block) ==
    LET h == SubTableHeader(block)
    IN  TDSLinesBetween(block, h + 1, FirstTotalAfter(block, h) - 1, h # 0)

\* the row carries the section code and the date of the line
RowOfLine(txn, line) ==
    /\ txn.section = IF LineSections(line) # <<>> THEN JStr(LineSections(line)[1])
                     ELSE JNull
    /\ txn.transaction_date = IF LineDates(line) # <<>> THEN DateValue(LineDates(line)[1])
                              ELSE JNull

\* C23: in a deductor block the rows come, in line order, from the lines after
\* the sub-table header (from the first line when there is none) and before
\* the first line containing 'total' after it: a line there yields a TDS
\* transaction only if it contains a section code or, when no sub-table header
\* was found, a date token; a line with neither yields none, and with a
\* sub-table header a line without section code yields none even if it has a
\* date.
C23_TDSRows ==
    TaxExtracted =>
        LET blocks == splitByDeductors(getLines(pageTexts))
        IN  /\ Len(Deductors) = Len(blocks)
            /\ \A b \in 1..Len(blocks) :
                  LET rows == Deductors[b].transactions
                      from == TDSLinesOf(blocks[b])
                  IN  /\ Len(rows) = Len(from)
                      /\ \A i \in 1..Len(rows) : RowOfLine(rows[i], from[i])

\* a sub-table header: the line with a section code yields a row, the dated
\* line without one does not
C23_Witness ==
    /\ TaxExtracted
    /\ pageTexts = <<"thead", "tds", "dated">>
    /\ Len(Deductors) = 1
    /\ Len(Deductors[1].transactions) = 1
    /\ Deductors[1].transactions[1].section = JStr("192")

\* no sub-table header: the dated line yields a row, the line after the total
\* does not
C23_WitnessNoHeader ==
    /\ TaxExtracted
    /\ pageTexts = <<"dated", "ttotal", "tds">>
    /\ Len(Deductors[1].transactions) = 1
    /\ Deductors[1].transactions[1].section = JNull
    /\ Deductors[1].transactions[1].transaction_date = JStr("2024-04-30")


(***************************************************************************)
(* The order of the warnings of a result.                                  *)
(***************************************************************************)
\* the stage of the pipeline that raises a warning
StageOf(code) ==
    CASE code \in {"SCANNED_PDF", "LOW_OCR_QUALITY", "UNKNOWN_DOCUMENT_TYPE"} -> 1
      [] code = "NO_TABLE_HEADER" -> 2
      [] code = "HEURISTIC_PARSING" -> 3
      [] code \in {"NO_TRANSACTIONS", "NO_DEDUCTORS"} -> 4
      [] code = "SCHEMA_VALIDATION" -> 5

\* the warnings processJob had pushed itself when it built the result
CallerWarnings == SubSeq(warnings, 1, Len(warnings) - Len(schemaErrors))

\* C24: the warnings of a final result are in the order of the stages: those
\* processJob raised before the extraction, then those of the extractor in
\* the order it emitted them (NO_TABLE_HEADER, HEURISTIC_PARSING, then
\* NO_TRANSACTIONS or NO_DEDUCTORS), then one SCHEMA_VALIDATION for every
\* schema error; validation removes, reorders and deduplicates nothing.
C24_StageOrder ==
    Assembled =>
        LET final == finalResult.warnings
            before == CallerWarnings \o WarningsOf(extractionResult)
        IN  /\ Len(final) = Len(before) + Len(schemaErrors)
            /\ SubSeq(final, 1, Len(before)) = before
            /\ \A i \in (Len(before) + 1)..Len(final) : final[i] = "SCHEMA_VALIDATION"
            /\ \A i \in 1..Len(before) : final[i] # "SCHEMA_VALIDATION"
            /\ \A i \in 1..Len(CallerWarnings) : StageOf(final[i]) = 1
            /\ \A i, j \in 1..Len(final) : i < j => StageOf(final[i]) <= StageOf(final[j])

\* a scanned page with little text, parsed heuristically without rows: the
\* warnings of processJob, then the three of the extractor
C24_Witness ==
    /\ Assembled
    /\ finalResult.warnings = <<"SCANNED_PDF", "LOW_OCR_QUALITY", "NO_TABLE_HEADER",
                                "HEURISTIC_PARSING", "NO_TRANSACTIONS">>


(***************************************************************************)
(* src/src/utils/normalize.js: getLines, on a text given as its sequence   *)
(* of characters, and the lines cleanOCRArtifacts leaves of a text.        *)
(***************************************************************************)
\* text.split(/\r?\n/): the pieces between the line feeds
RECURSIVE SplitAtLineFeeds(_, _)
SplitAtLineFeeds(s, piece) ==
    IF s = <<>> THEN <<piece>>
    ELSE IF Head(s) = "\n" THEN <<piece>> \o SplitAtLineFeeds(Tail(s), <<>>)
    ELSE SplitAtLineFeeds(Tail(s), Append(piece, Head(s)))

\* l.trim()
RECURSIVE Trim(_)
Trim(l) ==
    IF l = <<>> THEN <<>>
    ELSE IF Head(l) \in Whitespace THEN Trim(Tail(l))
    ELSE IF l[Len(l)] \in Whitespace THEN Trim(SubSeq(l, 1, Len(l) - 1))
    ELSE l

\* .map(l => l.trim()).filter(l => l.length > 0)
RECURSIVE TrimmedNonEmpty(_)
TrimmedNonEmpty(pieces) ==
    IF pieces = <<>> THEN <<>>
    ELSE (IF Trim(Head(pieces)) # <<>> THEN <<Trim(Head(pieces))>> ELSE <<>>)
         \o TrimmedNonEmpty(Tail(pieces))

\* getLines of a text of characters
getLinesOfChars(text) == TrimmedNonEmpty(SplitAtLineFeeds(text, <<>>))

\* C26: OCR cleanup preserves line boundaries: getLines(cleanOCRArtifacts(t))
\* has exactly one line for each non-blank line of t, so cleanup never merges
\* two distinct non-blank lines into one.
C26_AsStated ==
    ocrPasses # <<>> =>
        Len(getLinesOfChars(ocrPasses[1])) = Len(getLinesOfChars(ocrText))


\* two lines with a blank line between them come out as one line
C26_MergedLines ==
    /\ ocrText = <<"a", "\n", "\n", "a">>
    /\ ocrPasses # <<>>
    /\ Len(getLinesOfChars(ocrText)) = 2
    /\ getLinesOfChars(ocrPasses[1]) = << <<"a", " ", "a">> >>


(***************************************************************************)
(* One request to POST /api/v1/documents/upload (src/src/routes/           *)
(* documents.js) running beside the worker of the queue: the handler       *)
(* awaits insertDocument, addJob and insertJob one after the other, any of *)
(* which may throw, and the queue may hand the job to processJob as soon   *)
(* as addJob has added it.  A row that does not exist has status "absent". *)
(***************************************************************************)
ServiceTexts == {<<>>, <<"head", "row">>, <<"ded", "tds">>}

ServiceJobs ==
    { [text |-> t, originalName |-> f, pdf |-> k] :
        t \in ServiceTexts, f \in {"bank", "tax"}, k \in PdfKinds }

\* multer has stored the file, the handler is about to run
InitService ==
    /\ job \in ServiceJobs
    /\ handler = "received"
    /\ unlinked = FALSE
    /\ pc = "idle"
    /\ jobStatus = "absent"
    /\ docStatus = "absent"
    /\ jobError = "none"
    /\ warnings = <<>>
    /\ isScanned = FALSE
    /\ pageTexts = <<>>
    /\ classification = JUndefined
    /\ extractionResult = JUndefined
    /\ finalResult = JUndefined
    /\ schemaErrors = <<>>
    /\ results = <<>>
    /\ attemptsMade = 0
    /\ response = JUndefined
    /\ IdleCalc
    /\ IdleClean
    /\ IdleAmount
    /\ IdleDate
    /\ IdleUpload
    /\ IdleSplit

\* await insertDocument(...)
InsertDocument ==
    /\ handler = "received"
    /\ docStatus' = "pending"
    /\ handler' = "documentInserted"
    /\ UNCHANGED <<job, pc, jobStatus, jobError, warnings, isScanned, pageTexts,
                   classification, extractionResult, finalResult, schemaErrors,
                   results, attemptsMade, response, unlinked,
                   calcVars, cleanVars, amountVars, dateVars, uploadVars, splitVars>>

\* await addJob(...): from now on the queue can run the job
AddJob ==
    /\ handler = "documentInserted"
    /\ pc' = "queued"
    /\ handler' = "jobAdded"
    /\ UNCHANGED <<job, jobStatus, jobError, docStatus, warnings, isScanned, pageTexts,
                   classification, extractionResult, finalResult, schemaErrors,
                   results, attemptsMade, response, unlinked,
                   calcVars, cleanVars, amountVars, dateVars, uploadVars, splitVars>>

\* await insertJob(...), then the 202 response
InsertJob ==
    /\ handler = "jobAdded"
    /\ jobStatus' = "queued"
    /\ handler' = "accepted"
    /\ UNCHANGED <<job, pc, jobError, docStatus, warnings, isScanned, pageTexts,
                   classification, extractionResult, finalResult, schemaErrors,
                   results, attemptsMade, response, unlinked,
                   calcVars, cleanVars, amountVars, dateVars, uploadVars, splitVars>>

\* the awaited call throws: the catch block unlinks the file and hands the
\* error to the error middleware
HandlerFails ==
    /\ handler \in {"received", "documentInserted", "jobAdded"}
    /\ unlinked' = TRUE
    /\ handler' = "error"
    /\ UNCHANGED <<pipeVars, calcVars, cleanVars, amountVars, dateVars, uploadVars,
                   splitVars>>

\* extractTextFromLayer or renderPagesToImages reads a file that is gone
FileMissing ==
    /\ pc = "read"
    /\ unlinked
    /\ Failed("ENOENT")
    /\ UNCHANGED <<job, warnings, isScanned, pageTexts, classification,
                   extractionResult, finalResult, schemaErrors, results,
                   attemptsMade, response,
                   calcVars, cleanVars, amountVars, dateVars, uploadVars, splitVars,
                   handlerVars>>

\* one of the calls after insertResult throws (insertArtifact,
\* updateDocumentStatus, updateJobStatus): the catch block runs
FailAfterInsertResult ==
    /\ pc = "complete"
    /\ Failed("PROCESSING_ERROR")
    /\ UNCHANGED <<job, warnings, isScanned, pageTexts, classification,
                   extractionResult, finalResult, schemaErrors, results,
                   attemptsMade, response,
                   calcVars, cleanVars, amountVars, dateVars, uploadVars, splitVars,
                   handlerVars>>

NextService ==
    \/ InsertDocument
    \/ AddJob
    \/ InsertJob
    \/ HandlerFails
    \/ StartJob
    \/ DetectTextLayer
    \/ ReadText
    \/ OcrFails
    \/ FileMissing
    \/ Classify
    \/ Extract
    \/ Assemble
    \/ Persist
    \/ FailAfterInsertResult
    \/ Complete
    \/ Retry

SpecService == InitService /\ [][NextService]_vars

\* processJob has returned or thrown for the last time: the queue runs the
\* job no more
ProcessingEnded ==
    \/ pc = "done"
    \/ pc = "failed" /\ attemptsMade + 1 >= attempts

\* C25: for every interleaving of the upload handler with the worker, once
\* processJob has finished for a job, the row of the job in the jobs table has
\* status success or failed: it is never left at queued.
C25_AsStated ==
    (ProcessingEnded /\ jobStatus # "absent") => jobStatus \in {"success", "failed"}

\* C29: each job has at most one row in the results table, also when an
\* attempt fails after insertResult and the queue runs the job again.
C29_AsStated == Len(results) <= 1

====
